---- MODULE Spec2Model ----
(***************************************************************************)
(* Model of the instrument drivers of the repository.                      *)
(*                                                                         *)
(* Spec: the Toptica DLC Pro driver (pymeasure/instruments/toptica/        *)
(* dlc_pro.py).  One TopticaDLCPro object is constructed against a device  *)
(* reached through the Toptica SDK client; every method and property of    *)
(* the class is one action.  The SDK client is the environment: each of    *)
(* its calls returns a value, raises DecopError (a device-reported error)  *)
(* or raises another exception (a connection-level fault).                 *)
(*                                                                         *)
(* SpecAgiltron: the Agiltron optical switch driver (pymeasure/            *)
(* instruments/agiltron/agiltron_optical_switch.py).  One                  *)
(* AgiltronOpticalSwitch object is constructed over a transport adapter;   *)
(* the adapter is the environment: each write, raw write or query          *)
(* completes or raises.                                                    *)
(*                                                                         *)
(* SpecSiglent: the Siglent drivers (pymeasure/instruments/                *)
(* siglenttechnologies/siglent_sdg1032x.py and siglent_sva1000x.py).       *)
(* Their descriptors are functions of the value assigned or of the text    *)
(* the device replied; each action applies one of them to an input.        *)
(***************************************************************************)
EXTENDS Integers, Sequences, FiniteSets, TLC

VARIABLES
    phase,       \* "new": before __init__, "ready": object returned, "failed": __init__ raised
    client,      \* self.client: "None" or "Client"
    laser_type,  \* self.laser_type: "None", "CTL", "TA" or "Unknown"
    sdkOpen,     \* TRUE while the SDK client session is open (open() called, close() not yet)
    openCount,   \* number of calls of client.open()
    closeCount,  \* number of calls of client.close()
    detections,  \* number of times the reply to "laser1:type" was classified
    last,        \* the last operation called on the object, with its outcome and its SDK calls
    \* the AgiltronOpticalSwitch object and the last operation called on it
    swPhase,          \* "new": before __init__, "ready": object returned, "failed": __init__ raised
    switch_type,      \* self.switch_type: "None" until __init__ assigns it
    _channel_range,   \* self._channel_range: the range, by its start and its stop
    _current_channel, \* self._current_channel: PyNone while the attribute does not exist
    _product_name,    \* self._product_name: NoAttr while the attribute does not exist
    _serial_number,   \* self._serial_number: NoAttr while the attribute does not exist
    swLast,           \* the last operation, with its outcome and its transport calls
    \* the Siglent drivers: the input a descriptor is applied to, and the last
    \* descriptor applied to it with its outcome
    sigInput,
    sigLast

topticaVars == <<phase, client, laser_type, sdkOpen, openCount, closeCount,
                 detections, last>>
agiltronVars == <<swPhase, switch_type, _channel_range, _current_channel,
                  _product_name, _serial_number, swLast>>
siglentVars == <<sigInput, sigLast>>

vars == <<topticaVars, agiltronVars, siglentVars>>

----------------------------------------------------------------------------
(* Bounds *)

\* device values and limits are drawn from 0..MaxVal, requested values from -1..MaxVal+1
MaxVal == 1
\* of the probes of one discovery, only the first MaxFlakyProbes may fail
MaxFlakyProbes == 2
\* of the reads of one snapshot, only the first MaxFlakyReads may fail
MaxFlakyReads == 1

----------------------------------------------------------------------------
(* Python values and strings *)

PyNone == [type |-> "NoneType", i |-> 0, s |-> "None"]
PyBool(b) == [type |-> "bool", i |-> 0, s |-> IF b THEN "True" ELSE "False"]
PyInt(n) == [type |-> "int", i |-> n, s |-> ""]
PyStr(t) == [type |-> "str", i |-> 0, s |-> t]

\* isinstance(value, bool)
IsBool(v) == v.type = "bool"

\* the string literals of _open_connection, character by character
STR_CTL == <<"C", "T", "L">>
STR_BoosTApro == <<"B", "o", "o", "s", "T", "A", "p", "r", "o">>

\* needle in hay, for Python strings
StrIn(needle, hay) ==
    \E i \in 1..(Len(hay) - Len(needle) + 1) :
        SubSeq(hay, i, i + Len(needle) - 1) = needle

\* replies a device may give to "laser1:type"
TypeReplies ==
    { STR_CTL,
      STR_BoosTApro,
      <<"D", "L", "C", " ">> \o STR_BoosTApro,
      STR_CTL \o <<"2">>,
      <<"D", "L", "p", "r", "o">>,
      <<>> }

----------------------------------------------------------------------------
(* The SDK client: outcomes of one call *)

Ok(v) == [kind |-> "ok", val |-> v]
DecopError == [kind |-> "decop", val |-> 0]
Fault == [kind |-> "fault", val |-> 0]

DeviceValues == 0..MaxVal
GetOutcomes == {Ok(v) : v \in DeviceValues} \cup {DecopError, Fault}
SetOutcomes == {Ok(0), DecopError, Fault}
\* of the query "laser1:type": the device's reply, or an exception
TypeOutcomes == {Ok(reply) : reply \in TypeReplies} \cup {DecopError, Fault}
Values == (0 - 1)..(MaxVal + 1)

GetCall(name, out) ==
    [m |-> "get", name |-> name, arg |-> PyNone, out |-> out.kind, ret |-> out.val]
SetCall(name, value, out) ==
    [m |-> "set", name |-> name, arg |-> value, out |-> out.kind, ret |-> 0]
CloseCall(out) ==
    [m |-> "close", name |-> "", arg |-> PyNone, out |-> out.kind, ret |-> 0]

\* outcome of a method: it returns ret or raises exc(msg); calls are the SDK calls it made
\* (ret: the numbers returned; names, source, params, meta: the results of
\* get_all_supported_parameters and get_all_parameters, empty elsewhere)
NoMeta == [laser_type |-> "None", parameter_count |-> 0, discovery_method |-> "none"]
Return(ret, calls) ==
    [exc |-> "none", msg |-> "", ret |-> ret, calls |-> calls,
     names |-> <<>>, source |-> "none", params |-> <<>>, meta |-> NoMeta]
Raise(exc, msg, calls) ==
    [exc |-> exc, msg |-> msg, ret |-> <<>>, calls |-> calls,
     names |-> <<>>, source |-> "none", params |-> <<>>, meta |-> NoMeta]
\* r, run after the SDK calls `calls` were made
After(calls, r) == [r EXCEPT !.calls = calls \o r.calls]

MSG_CTL_ONLY == "This property is only available for CTL lasers"
MSG_TA_ONLY == "This property is only available for TA lasers"

----------------------------------------------------------------------------
(* _get_parameter / _set_parameter *)

\* a _get_parameter without the test of the client
_get_parameter_unchecked(param_name, out) ==
    IF out.kind = "ok"
    THEN Return(<<out.val>>, <<GetCall(param_name, out)>>)
    ELSE IF out.kind = "decop"
         THEN Raise("ValueError", "Error retrieving parameter",
                    <<GetCall(param_name, out)>>)
         ELSE Raise("TransportError", "", <<GetCall(param_name, out)>>)

_get_parameter(param_name, out) ==
    IF client = "None"
    THEN Raise("ConnectionError", "Connection not open", <<>>)
    ELSE IF out.kind = "ok"
         THEN Return(<<out.val>>, <<GetCall(param_name, out)>>)
         ELSE IF out.kind = "decop"
              THEN Raise("ValueError", "Error retrieving parameter",
                         <<GetCall(param_name, out)>>)
              ELSE Raise("TransportError", "", <<GetCall(param_name, out)>>)

\* a _set_parameter that repeats a request that failed
_set_parameter_retries_once(param_name, value, out) ==
    IF client = "None"
    THEN Raise("ConnectionError", "Connection not open", <<>>)
    ELSE IF out.kind = "ok"
         THEN Return(<<>>, <<SetCall(param_name, value, out)>>)
         ELSE IF out.kind = "decop"
              THEN Raise("ValueError", "Error setting parameter",
                         <<SetCall(param_name, value, out),
                           SetCall(param_name, value, out)>>)
              ELSE Raise("TransportError", "",
                         <<SetCall(param_name, value, out),
                           SetCall(param_name, value, out)>>)

_set_parameter(param_name, value, out) ==
    IF client = "None"
    THEN Raise("ConnectionError", "Connection not open", <<>>)
    ELSE IF out.kind = "ok"
         THEN Return(<<>>, <<SetCall(param_name, value, out)>>)
         ELSE IF out.kind = "decop"
              THEN Raise("ValueError", "Error setting parameter",
                         <<SetCall(param_name, value, out)>>)
              ELSE Raise("TransportError", "", <<SetCall(param_name, value, out)>>)

----------------------------------------------------------------------------
(* Common properties *)

emission_get(out) == _get_parameter("emission", out)

emission_set(value, out) ==
    IF ~IsBool(value)
    THEN Raise("ValueError", "Emission must be True or False", <<>>)
    ELSE _set_parameter("emission", value, out)

----------------------------------------------------------------------------
(* CTL-specific properties *)

\* the wavelength getter refusing only the other known variant
wavelength_get_refuses_ta_only(out) ==
    IF laser_type = "TA"
    THEN Raise("ValueError", MSG_CTL_ONLY, <<>>)
    ELSE _get_parameter("laser1:ctl:wavelength-set", out)

wavelength_get(out) ==
    IF laser_type # "CTL"
    THEN Raise("ValueError", MSG_CTL_ONLY, <<>>)
    ELSE _get_parameter("laser1:ctl:wavelength-set", out)

\* the wavelength setter with the lower limit left unchecked
wavelength_set_upper_only(value, o1, o2, o3) ==
    IF laser_type # "CTL"
    THEN Raise("ValueError", MSG_CTL_ONLY, <<>>)
    ELSE LET wl_min == _get_parameter("laser1:ctl:wavelength-min", o1)
             wl_max == After(wl_min.calls, _get_parameter("laser1:ctl:wavelength-max", o2))
         IN  IF wl_min.exc # "none" THEN wl_min
             ELSE IF wl_max.exc # "none" THEN wl_max
             ELSE IF value > wl_max.ret[1]
                  THEN Raise("ValueError", "Wavelength must be between", wl_max.calls)
                  ELSE After(wl_max.calls,
                             _set_parameter("laser1:ctl:wavelength-set", PyInt(value), o3))

wavelength_set(value, o1, o2, o3) ==
    IF laser_type # "CTL"
    THEN Raise("ValueError", MSG_CTL_ONLY, <<>>)
    ELSE LET wl_min == _get_parameter("laser1:ctl:wavelength-min", o1)
             wl_max == After(wl_min.calls, _get_parameter("laser1:ctl:wavelength-max", o2))
         IN  IF wl_min.exc # "none" THEN wl_min
             ELSE IF wl_max.exc # "none" THEN wl_max
             ELSE IF value < wl_min.ret[1] \/ value > wl_max.ret[1]
                  THEN Raise("ValueError", "Wavelength must be between", wl_max.calls)
                  ELSE After(wl_max.calls,
                             _set_parameter("laser1:ctl:wavelength-set", PyInt(value), o3))

wavelength_actual_get(out) ==
    IF laser_type # "CTL"
    THEN Raise("ValueError", MSG_CTL_ONLY, <<>>)
    ELSE _get_parameter("laser1:ctl:wavelength-act", out)

wavelength_limits_get(o1, o2) ==
    IF laser_type # "CTL"
    THEN Raise("ValueError", MSG_CTL_ONLY, <<>>)
    ELSE LET wl_min == _get_parameter("laser1:ctl:wavelength-min", o1)
             wl_max == After(wl_min.calls, _get_parameter("laser1:ctl:wavelength-max", o2))
         IN  IF wl_min.exc # "none" THEN wl_min
             ELSE IF wl_max.exc # "none" THEN wl_max
             ELSE Return(wl_min.ret \o wl_max.ret, wl_max.calls)

scan_offset_get(out) ==
    IF laser_type # "CTL"
    THEN Raise("ValueError", MSG_CTL_ONLY, <<>>)
    ELSE _get_parameter("laser1:scan:offset", out)

\* a scan_offset setter that reads the upper limit before the lower limit
scan_offset_set_max_first(value, o1, o2, o3) ==
    IF laser_type # "CTL"
    THEN Raise("ValueError", MSG_CTL_ONLY, <<>>)
    ELSE LET offset_max == _get_parameter("laser1:dl:pc:voltage-max", o2)
             offset_min == After(offset_max.calls,
                                 _get_parameter("laser1:dl:pc:voltage-min", o1))
         IN  IF offset_max.exc # "none" THEN offset_max
             ELSE IF offset_min.exc # "none" THEN offset_min
             ELSE IF value < offset_min.ret[1] \/ value > offset_max.ret[1]
                  THEN Raise("ValueError", "Scan offset must be between", offset_min.calls)
                  ELSE After(offset_min.calls,
                             _set_parameter("laser1:scan:offset", PyInt(value), o3))

scan_offset_set(value, o1, o2, o3) ==
    IF laser_type # "CTL"
    THEN Raise("ValueError", MSG_CTL_ONLY, <<>>)
    ELSE LET offset_min == _get_parameter("laser1:dl:pc:voltage-min", o1)
             offset_max == After(offset_min.calls,
                                 _get_parameter("laser1:dl:pc:voltage-max", o2))
         IN  IF offset_min.exc # "none" THEN offset_min
             ELSE IF offset_max.exc # "none" THEN offset_max
             ELSE IF value < offset_min.ret[1] \/ value > offset_max.ret[1]
                  THEN Raise("ValueError", "Scan offset must be between", offset_max.calls)
                  ELSE After(offset_max.calls,
                             _set_parameter("laser1:scan:offset", PyInt(value), o3))

scan_offset_limits_get(o1, o2) ==
    IF laser_type # "CTL"
    THEN Raise("ValueError", MSG_CTL_ONLY, <<>>)
    ELSE LET offset_min == _get_parameter("laser1:dl:pc:voltage-min", o1)
             offset_max == After(offset_min.calls,
                                 _get_parameter("laser1:dl:pc:voltage-max", o2))
         IN  IF offset_min.exc # "none" THEN offset_min
             ELSE IF offset_max.exc # "none" THEN offset_max
             ELSE Return(offset_min.ret \o offset_max.ret, offset_max.calls)

ctl_current_get(out) ==
    IF laser_type # "CTL"
    THEN Raise("ValueError", MSG_CTL_ONLY, <<>>)
    ELSE _get_parameter("laser1:dl:cc:current-set", out)

\* a ctl_current setter whose bounds are exclusive
ctl_current_set_exclusive(value, o1, o3) ==
    IF laser_type # "CTL"
    THEN Raise("ValueError", MSG_CTL_ONLY, <<>>)
    ELSE LET current_limit == _get_parameter("laser1:dl:cc:current-clip", o1)
         IN  IF current_limit.exc # "none" THEN current_limit
             ELSE IF value <= 0 \/ value >= current_limit.ret[1]
                  THEN Raise("ValueError", "Current must be between 0 and",
                             current_limit.calls)
                  ELSE After(current_limit.calls,
                             _set_parameter("laser1:dl:cc:current-set", PyInt(value), o3))

ctl_current_set(value, o1, o3) ==
    IF laser_type # "CTL"
    THEN Raise("ValueError", MSG_CTL_ONLY, <<>>)
    ELSE LET current_limit == _get_parameter("laser1:dl:cc:current-clip", o1)
         IN  IF current_limit.exc # "none" THEN current_limit
             ELSE IF value < 0 \/ value > current_limit.ret[1]
                  THEN Raise("ValueError", "Current must be between 0 and",
                             current_limit.calls)
                  ELSE After(current_limit.calls,
                             _set_parameter("laser1:dl:cc:current-set", PyInt(value), o3))

ctl_current_actual_get(out) ==
    IF laser_type # "CTL"
    THEN Raise("ValueError", MSG_CTL_ONLY, <<>>)
    ELSE _get_parameter("laser1:dl:cc:current-act", out)

----------------------------------------------------------------------------
(* TA-specific properties *)

\* ta_current read without the variant check
ta_current_get_ungated(out) == _get_parameter("ampcc1:channel1:current-set", out)

ta_current_get(out) ==
    IF laser_type # "TA"
    THEN Raise("ValueError", MSG_TA_ONLY, <<>>)
    ELSE _get_parameter("ampcc1:channel1:current-set", out)

ta_current_set(value, o1, o3) ==
    IF laser_type # "TA"
    THEN Raise("ValueError", MSG_TA_ONLY, <<>>)
    ELSE LET current_limit == _get_parameter("ampcc1:channel1:current-clip-limit", o1)
         IN  IF current_limit.exc # "none" THEN current_limit
             ELSE IF value < 0 \/ value > current_limit.ret[1]
                  THEN Raise("ValueError", "Current must be between 0 and",
                             current_limit.calls)
                  ELSE After(current_limit.calls,
                             _set_parameter("ampcc1:channel1:current-set", PyInt(value), o3))

ta_current_actual_get(out) ==
    IF laser_type # "TA"
    THEN Raise("ValueError", MSG_TA_ONLY, <<>>)
    ELSE _get_parameter("ampcc1:channel1:current-act", out)

ta_current_limit_get(out) ==
    IF laser_type # "TA"
    THEN Raise("ValueError", MSG_TA_ONLY, <<>>)
    ELSE _get_parameter("ampcc1:channel1:current-clip-limit", out)

ta_temperature_get(out) ==
    IF laser_type # "TA"
    THEN Raise("ValueError", MSG_TA_ONLY, <<>>)
    ELSE _get_parameter("laser1:amp:tc:temp-act", out)

ta_temperature_setpoint_get(out) ==
    IF laser_type # "TA"
    THEN Raise("ValueError", MSG_TA_ONLY, <<>>)
    ELSE _get_parameter("laser1:amp:tc:temp-set", out)

\* the temperature setter writing the value before it checks it
ta_temperature_setpoint_set_write_first(value, o1, o2, o3) ==
    IF laser_type # "TA"
    THEN Raise("ValueError", MSG_TA_ONLY, <<>>)
    ELSE LET temp_min == _get_parameter("laser1:amp:tc:temp-set-min", o1)
             temp_max == After(temp_min.calls,
                               _get_parameter("laser1:amp:tc:temp-set-max", o2))
             written == After(temp_max.calls,
                              _set_parameter("laser1:amp:tc:temp-set", PyInt(value), o3))
         IN  IF temp_min.exc # "none" THEN temp_min
             ELSE IF temp_max.exc # "none" THEN temp_max
             ELSE IF written.exc # "none" THEN written
             ELSE IF value < temp_min.ret[1] \/ value > temp_max.ret[1]
                  THEN Raise("ValueError", "Temperature must be between", written.calls)
                  ELSE written

ta_temperature_setpoint_set(value, o1, o2, o3) ==
    IF laser_type # "TA"
    THEN Raise("ValueError", MSG_TA_ONLY, <<>>)
    ELSE LET temp_min == _get_parameter("laser1:amp:tc:temp-set-min", o1)
             temp_max == After(temp_min.calls,
                               _get_parameter("laser1:amp:tc:temp-set-max", o2))
         IN  IF temp_min.exc # "none" THEN temp_min
             ELSE IF temp_max.exc # "none" THEN temp_max
             ELSE IF value < temp_min.ret[1] \/ value > temp_max.ret[1]
                  THEN Raise("ValueError", "Temperature must be between", temp_max.calls)
                  ELSE After(temp_max.calls,
                             _set_parameter("laser1:amp:tc:temp-set", PyInt(value), o3))

ta_temperature_limits_get(o1, o2) ==
    IF laser_type # "TA"
    THEN Raise("ValueError", MSG_TA_ONLY, <<>>)
    ELSE LET temp_min == _get_parameter("laser1:amp:tc:temp-set-min", o1)
             temp_max == After(temp_min.calls,
                               _get_parameter("laser1:amp:tc:temp-set-max", o2))
         IN  IF temp_min.exc # "none" THEN temp_min
             ELSE IF temp_max.exc # "none" THEN temp_max
             ELSE Return(temp_min.ret \o temp_max.ret, temp_max.calls)

----------------------------------------------------------------------------
(* Utility methods *)

get_parameter(param_name, out) == _get_parameter(param_name, out)

set_parameter(param_name, value, out) == _set_parameter(param_name, value, out)

----------------------------------------------------------------------------
(* Parameter lists *)

LaserTypes == {"None", "CTL", "TA", "Unknown"}

_get_default_parameter_list(lt) ==
    IF lt = "CTL"
    THEN << "laser1:ctl:wavelength-set",
            "laser1:ctl:wavelength-act",
            "laser1:scan:offset",
            "laser1:ctl:wavelength-max",
            "laser1:ctl:wavelength-min",
            "laser1:dl:pc:voltage-max",
            "laser1:dl:pc:voltage-min",
            "laser1:dl:cc:current-set",
            "laser1:dl:cc:current-act",
            "laser1:dl:cc:current-clip",
            "laser1:type",
            "emission" >>
    ELSE IF lt = "TA"
    THEN << "ampcc1:channel1:current-set",
            "ampcc1:channel1:current-act",
            "laser1:amp:tc:temp-act",
            "laser1:amp:tc:temp-set",
            "laser1:amp:tc:temp-set-min",
            "laser1:amp:tc:temp-set-max",
            "ampcc1:channel1:current-clip-limit",
            "laser1:type",
            "emission" >>
    ELSE << "laser1:type", "emission" >>

\* Python's order of str (by code point, lexicographic) on the parameter names of
\* the driver: the position of each name in that order
StrRank ==
    "ampcc1:channel1:current-act" :> 1 @@
    "ampcc1:channel1:current-clip-limit" :> 2 @@
    "ampcc1:channel1:current-set" :> 3 @@
    "cc1:board-temp" :> 4 @@
    "custom:parameter" :> 5 @@
    "emission" :> 6 @@
    "fw:version" :> 7 @@
    "laser1:amp:photodiode" :> 8 @@
    "laser1:amp:state" :> 9 @@
    "laser1:amp:tc:temp-act" :> 10 @@
    "laser1:amp:tc:temp-set" :> 11 @@
    "laser1:amp:tc:temp-set-max" :> 12 @@
    "laser1:amp:tc:temp-set-min" :> 13 @@
    "laser1:ctl:mode" :> 14 @@
    "laser1:ctl:state" :> 15 @@
    "laser1:ctl:wavelength-act" :> 16 @@
    "laser1:ctl:wavelength-max" :> 17 @@
    "laser1:ctl:wavelength-min" :> 18 @@
    "laser1:ctl:wavelength-set" :> 19 @@
    "laser1:dl:cc:current-act" :> 20 @@
    "laser1:dl:cc:current-clip" :> 21 @@
    "laser1:dl:cc:current-set" :> 22 @@
    "laser1:dl:pc:voltage-max" :> 23 @@
    "laser1:dl:pc:voltage-min" :> 24 @@
    "laser1:dl:tc:temp-act" :> 25 @@
    "laser1:dl:tc:temp-set" :> 26 @@
    "laser1:scan:offset" :> 27 @@
    "laser1:type" :> 28 @@
    "system:model" :> 29 @@
    "system:serial-number" :> 30 @@
    "system:uptime" :> 31 @@
    "tc1:board-temp" :> 32

\* a < b for two parameter names
StrLess(a, b) == StrRank[a] < StrRank[b]

\* set(seq)
ToSet(seq) == {seq[i] : i \in DOMAIN seq}

\* sorted(S) of a collection of distinct strings: the least first
RECURSIVE sorted(_)
sorted(S) ==
    IF S = {}
    THEN <<>>
    ELSE LET least == CHOOSE x \in S : \A y \in S \ {x} : StrLess(x, y)
         IN  <<least>> \o sorted(S \ {least})

\* the candidate list left in the order of its parts, not sorted
_get_enhanced_parameter_list_unsorted(lt) ==
    _get_default_parameter_list(lt)
        \o << "system:uptime", "system:serial-number", "system:model",
              "fw:version", "cc1:board-temp", "tc1:board-temp" >>
        \o (IF lt = "CTL"
            THEN << "laser1:dl:tc:temp-act", "laser1:dl:tc:temp-set",
                    "laser1:ctl:mode", "laser1:ctl:state" >>
            ELSE IF lt = "TA"
            THEN << "laser1:amp:photodiode", "laser1:amp:state" >>
            ELSE <<>>)

_get_enhanced_parameter_list(lt) ==
    LET base_params == _get_default_parameter_list(lt)
        common == << "system:uptime",
                     "system:serial-number",
                     "system:model",
                     "fw:version",
                     "cc1:board-temp",
                     "tc1:board-temp" >>
        additional_params ==
            IF lt = "CTL"
            THEN common \o << "laser1:dl:tc:temp-act",
                              "laser1:dl:tc:temp-set",
                              "laser1:ctl:mode",
                              "laser1:ctl:state" >>
            ELSE IF lt = "TA"
            THEN common \o << "laser1:amp:photodiode",
                              "laser1:amp:state" >>
            ELSE common
        all_params == ToSet(base_params \o additional_params)
    IN  sorted(all_params)

\* the two lists of each laser type, computed once
DefaultList == [lt \in LaserTypes |-> _get_default_parameter_list(lt)]
EnhancedList == [lt \in LaserTypes |-> _get_enhanced_parameter_list(lt)]

----------------------------------------------------------------------------
(* Capability discovery and the parameter snapshot *)

\* what the SDK answers to the reads of one loop over a list of names: each of the
\* first `flaky` reads returns, raises DecopError or raises another exception; the
\* others return
LoopOutcomes(flaky) == [1..flaky -> {Ok(0), DecopError, Fault}]
OutAt(outs, i) == IF i \in DOMAIN outs THEN outs[i] ELSE Ok(0)

\* the probing loop without its handler of other exceptions: a fault leaves the loop
RECURSIVE ProbeLoop_fault_aborts(_, _, _, _, _)
ProbeLoop_fault_aborts(candidate_params, outs, i, available_params, calls) ==
    IF i > Len(candidate_params)
    THEN [exc |-> "none", available_params |-> available_params, calls |-> calls]
    ELSE LET param == candidate_params[i]
             out == OutAt(outs, i)
             made == Append(calls, GetCall(param, out))
         IN  IF out.kind = "ok"
             THEN ProbeLoop_fault_aborts(candidate_params, outs, i + 1,
                                         Append(available_params, param), made)
             ELSE IF out.kind = "decop"
             THEN ProbeLoop_fault_aborts(candidate_params, outs, i + 1,
                                         available_params, made)
             ELSE [exc |-> "TransportError", available_params |-> available_params,
                   calls |-> made]

\* the loop of get_all_supported_parameters from candidate i on
RECURSIVE ProbeLoop(_, _, _, _, _)
ProbeLoop(candidate_params, outs, i, available_params, calls) ==
    IF i > Len(candidate_params)
    THEN [exc |-> "none", available_params |-> available_params, calls |-> calls]
    ELSE LET param == candidate_params[i]
             out == OutAt(outs, i)
             made == Append(calls, GetCall(param, out))
         IN  IF out.kind = "ok"
             THEN ProbeLoop(candidate_params, outs, i + 1,
                            Append(available_params, param), made)
             ELSE IF out.kind = "decop"
             THEN ProbeLoop(candidate_params, outs, i + 1, available_params, made)
             ELSE ProbeLoop(candidate_params, outs, i + 1, available_params, made)

get_all_supported_parameters(outs) ==
    IF client = "None"
    THEN Raise("ConnectionError", "Connection not open", <<>>)
    ELSE LET candidate_params == EnhancedList[laser_type]
             body == ProbeLoop(candidate_params, outs, 1, <<>>, <<>>)
         IN  IF body.exc = "none"
             THEN [Return(<<>>, body.calls) EXCEPT
                       !.names = body.available_params, !.source = "probed"]
             ELSE [Return(<<>>, body.calls) EXCEPT
                       !.names = DefaultList[laser_type], !.source = "default"]

\* the reading loop ended by the first DecopError, after storing it
RECURSIVE ReadLoop_error_ends_loop(_, _, _, _, _)
ReadLoop_error_ends_loop(param_names, outs, i, parameters, calls) ==
    IF i > Len(param_names)
    THEN [exc |-> "none", parameters |-> parameters, calls |-> calls]
    ELSE LET param == param_names[i]
             out == OutAt(outs, i)
             made == Append(calls, GetCall(param, out))
         IN  IF out.kind = "ok"
             THEN ReadLoop_error_ends_loop(param_names, outs, i + 1,
                                           (param :> "value") @@ parameters, made)
             ELSE IF out.kind = "decop"
             THEN [exc |-> "none", parameters |-> (param :> "ERROR") @@ parameters,
                   calls |-> made]
             ELSE [exc |-> "TransportError", parameters |-> parameters, calls |-> made]

\* the loop of get_all_parameters from name i on; a DecopError is stored, any other
\* exception leaves the loop and the method
RECURSIVE ReadLoop(_, _, _, _, _)
ReadLoop(param_names, outs, i, parameters, calls) ==
    IF i > Len(param_names)
    THEN [exc |-> "none", parameters |-> parameters, calls |-> calls]
    ELSE LET param == param_names[i]
             out == OutAt(outs, i)
             made == Append(calls, GetCall(param, out))
         IN  IF out.kind = "ok"
             THEN ReadLoop(param_names, outs, i + 1,
                           (param :> "value") @@ parameters, made)
             ELSE IF out.kind = "decop"
             THEN ReadLoop(param_names, outs, i + 1,
                           (param :> "ERROR") @@ parameters, made)
             ELSE [exc |-> "TransportError", parameters |-> parameters, calls |-> made]

\* the tag written without looking at the request
discovery_method_always_dynamic(use_dynamic_discovery) == "dynamic"

\* the "discovery_method" entry of the metadata of get_all_parameters
discovery_method(use_dynamic_discovery) ==
    IF use_dynamic_discovery THEN "dynamic" ELSE "predefined"

\* (of the metadata, laser_type, parameter_count and discovery_method are kept;
\* ip_address, timestamp and instrument_name depend on nothing the calls change)
get_all_parameters(use_dynamic_discovery, probeOuts, readOuts) ==
    IF client = "None"
    THEN Raise("ConnectionError", "Connection not open", <<>>)
    ELSE LET found == IF use_dynamic_discovery
                      THEN get_all_supported_parameters(probeOuts)
                      ELSE Return(<<>>, <<>>)
             fallback == use_dynamic_discovery /\ found.exc # "none"
             param_names == IF use_dynamic_discovery /\ ~fallback
                            THEN found.names
                            ELSE DefaultList[laser_type]
             source == IF use_dynamic_discovery /\ ~fallback
                       THEN found.source
                       ELSE "default"
             read == ReadLoop(param_names, readOuts, 1, <<>>, found.calls)
         IN  IF read.exc # "none"
             THEN Raise(read.exc, "", read.calls)
             ELSE [Return(<<>>, read.calls) EXCEPT
                       !.names = param_names,
                       !.source = source,
                       !.params = read.parameters,
                       !.meta = [laser_type |-> laser_type,
                                 parameter_count |-> Len(param_names),
                                 discovery_method |->
                                     discovery_method(use_dynamic_discovery)]]

----------------------------------------------------------------------------
(* Construction and shutdown *)

OpenCall(out) ==
    [m |-> "open", name |-> "", arg |-> PyNone, out |-> out.kind, ret |-> 0]

\* the classification of the reply to "laser1:type" in _open_connection
\* the reply classified by its start instead of by containment
ClassifyType_by_prefix(reply) ==
    IF reply = STR_CTL
    THEN "CTL"
    ELSE IF Len(reply) >= Len(STR_BoosTApro)
            /\ SubSeq(reply, 1, Len(STR_BoosTApro)) = STR_BoosTApro
         THEN "TA"
         ELSE "Unknown"

ClassifyType(reply) ==
    IF reply = STR_CTL
    THEN "CTL"
    ELSE IF StrIn(STR_BoosTApro, reply)
         THEN "TA"
         ELSE "Unknown"

\* _open_connection without the reset of the client reference in its handler
_open_connection_keeps_client(openOut, typeOut) ==
    IF openOut.kind # "ok"
    THEN [client |-> "Client", laser_type |-> laser_type, sdkOpen |-> FALSE,
          detected |-> 0, exc |-> "ConnectionError",
          calls |-> <<OpenCall(openOut)>>]
    ELSE IF typeOut.kind # "ok"
    THEN [client |-> "Client", laser_type |-> laser_type, sdkOpen |-> TRUE,
          detected |-> 0, exc |-> "ConnectionError",
          calls |-> <<OpenCall(openOut), GetCall("laser1:type", typeOut)>>]
    ELSE [client |-> "Client", laser_type |-> ClassifyType(typeOut.val), sdkOpen |-> TRUE,
          detected |-> 1, exc |-> "none",
          calls |-> <<OpenCall(openOut), GetCall("laser1:type", typeOut)>>]

\* _open_connection: the fields of the object it leaves, and whether it raises
_open_connection(openOut, typeOut) ==
    IF openOut.kind # "ok"
    THEN [client |-> "None", laser_type |-> laser_type, sdkOpen |-> FALSE,
          detected |-> 0, exc |-> "ConnectionError",
          calls |-> <<OpenCall(openOut)>>]
    ELSE IF typeOut.kind # "ok"
    THEN [client |-> "None", laser_type |-> laser_type, sdkOpen |-> TRUE,
          detected |-> 0, exc |-> "ConnectionError",
          calls |-> <<OpenCall(openOut), GetCall("laser1:type", typeOut)>>]
    ELSE [client |-> "Client", laser_type |-> ClassifyType(typeOut.val), sdkOpen |-> TRUE,
          detected |-> 1, exc |-> "none",
          calls |-> <<OpenCall(openOut), GetCall("laser1:type", typeOut)>>]

\* the record kept of the last operation
Done(op, arg, r) ==
    [op |-> op, arg |-> arg, exc |-> r.exc, msg |-> r.msg, ret |-> r.ret,
     calls |-> r.calls, names |-> r.names, source |-> r.source,
     params |-> r.params, meta |-> r.meta]

\* TopticaDLCPro(ip_address): __init__ sets client and laser_type to None, then
\* opens the connection; when that raises, no object is returned
__init__ ==
    /\ phase = "new"
    /\ \E openOut \in {Ok(0), Fault}, typeOut \in TypeOutcomes :
          LET c == _open_connection(openOut, typeOut)
          IN  /\ client' = c.client
              /\ laser_type' = c.laser_type
              /\ sdkOpen' = c.sdkOpen
              /\ openCount' = openCount + 1
              /\ detections' = detections + c.detected
              /\ phase' = IF c.exc = "none" THEN "ready" ELSE "failed"
              /\ last' = Done("__init__", PyNone,
                              IF c.exc = "none"
                              THEN Return(<<>>, c.calls)
                              ELSE Raise(c.exc, "Failed to connect to laser", c.calls))
    /\ UNCHANGED closeCount
    /\ UNCHANGED <<agiltronVars, siglentVars>>

\* a shutdown that keeps the client when close raises
shutdown_keeps_client_on_error(entry, closeOut) ==
    /\ phase = "ready"
    /\ IF client # "None"
       THEN /\ closeCount' = closeCount + 1
            /\ client' = IF closeOut.kind = "ok" THEN "None" ELSE client
            /\ sdkOpen' = IF closeOut.kind = "ok" THEN FALSE ELSE sdkOpen
            /\ last' = Done(entry, PyNone, Return(<<>>, <<CloseCall(closeOut)>>))
       ELSE /\ UNCHANGED <<closeCount, sdkOpen, client>>
            /\ last' = Done(entry, PyNone, Return(<<>>, <<>>))
    /\ UNCHANGED <<phase, laser_type, openCount, detections>>
    /\ UNCHANGED <<agiltronVars, siglentVars>>

\* a shutdown that also forgets the detected variant
shutdown_forgets_type(entry, closeOut) ==
    /\ phase = "ready"
    /\ client' = "None"
    /\ laser_type' = "None"
    /\ IF client # "None"
       THEN /\ closeCount' = closeCount + 1
            /\ sdkOpen' = IF closeOut.kind = "ok" THEN FALSE ELSE sdkOpen
            /\ last' = Done(entry, PyNone, Return(<<>>, <<CloseCall(closeOut)>>))
       ELSE /\ UNCHANGED <<closeCount, sdkOpen>>
            /\ last' = Done(entry, PyNone, Return(<<>>, <<>>))
    /\ UNCHANGED <<phase, openCount, detections>>
    /\ UNCHANGED <<agiltronVars, siglentVars>>

\* shutdown(), entered as `entry` ("shutdown" or "__exit__"); super().shutdown()
\* changes nothing of this state and calls nothing of the SDK
shutdown(entry, closeOut) ==
    /\ phase = "ready"
    /\ client' = "None"
    /\ IF client # "None"
       THEN /\ closeCount' = closeCount + 1
            /\ sdkOpen' = IF closeOut.kind = "ok" THEN FALSE ELSE sdkOpen
            /\ last' = Done(entry, PyNone, Return(<<>>, <<CloseCall(closeOut)>>))
       ELSE /\ UNCHANGED <<closeCount, sdkOpen>>
            /\ last' = Done(entry, PyNone, Return(<<>>, <<>>))
    /\ UNCHANGED <<phase, laser_type, openCount, detections>>
    /\ UNCHANGED <<agiltronVars, siglentVars>>

Call_shutdown == \E closeOut \in {Ok(0), Fault} : shutdown("shutdown", closeOut)

__exit__ == \E closeOut \in {Ok(0), Fault} : shutdown("__exit__", closeOut)

----------------------------------------------------------------------------
(* The calls a user of the object makes *)

EmissionInputs == {PyBool(TRUE), PyBool(FALSE), PyInt(1), PyStr("on")}
GenericNames == {"custom:parameter", "emission"}
GenericValues == {PyInt(1), PyBool(FALSE)}

\* a property access or method call that changes no field of the object
Access(op, arg, r) ==
    /\ phase = "ready"
    /\ last' = Done(op, arg, r)
    /\ UNCHANGED <<phase, client, laser_type, sdkOpen, openCount,
                   closeCount, detections>>
    /\ UNCHANGED <<agiltronVars, siglentVars>>

Call_emission_get ==
    \E out \in GetOutcomes : Access("emission.get", PyNone, emission_get(out))

Call_emission_set ==
    \E value \in EmissionInputs, out \in SetOutcomes :
        Access("emission.set", value, emission_set(value, out))

Call_wavelength_get ==
    \E out \in GetOutcomes : Access("wavelength.get", PyNone, wavelength_get(out))

Call_wavelength_set ==
    \E value \in Values, o1 \in GetOutcomes, o2 \in GetOutcomes, o3 \in SetOutcomes :
        Access("wavelength.set", PyInt(value), wavelength_set(value, o1, o2, o3))

Call_wavelength_actual_get ==
    \E out \in GetOutcomes :
        Access("wavelength_actual.get", PyNone, wavelength_actual_get(out))

Call_wavelength_limits_get ==
    \E o1 \in GetOutcomes, o2 \in GetOutcomes :
        Access("wavelength_limits.get", PyNone, wavelength_limits_get(o1, o2))

Call_scan_offset_get ==
    \E out \in GetOutcomes : Access("scan_offset.get", PyNone, scan_offset_get(out))

Call_scan_offset_set ==
    \E value \in Values, o1 \in GetOutcomes, o2 \in GetOutcomes, o3 \in SetOutcomes :
        Access("scan_offset.set", PyInt(value), scan_offset_set(value, o1, o2, o3))

Call_scan_offset_limits_get ==
    \E o1 \in GetOutcomes, o2 \in GetOutcomes :
        Access("scan_offset_limits.get", PyNone, scan_offset_limits_get(o1, o2))

Call_ctl_current_get ==
    \E out \in GetOutcomes : Access("ctl_current.get", PyNone, ctl_current_get(out))

Call_ctl_current_set ==
    \E value \in Values, o1 \in GetOutcomes, o3 \in SetOutcomes :
        Access("ctl_current.set", PyInt(value), ctl_current_set(value, o1, o3))

Call_ctl_current_actual_get ==
    \E out \in GetOutcomes :
        Access("ctl_current_actual.get", PyNone, ctl_current_actual_get(out))

Call_ta_current_get ==
    \E out \in GetOutcomes : Access("ta_current.get", PyNone, ta_current_get(out))

Call_ta_current_set ==
    \E value \in Values, o1 \in GetOutcomes, o3 \in SetOutcomes :
        Access("ta_current.set", PyInt(value), ta_current_set(value, o1, o3))

Call_ta_current_actual_get ==
    \E out \in GetOutcomes :
        Access("ta_current_actual.get", PyNone, ta_current_actual_get(out))

Call_ta_current_limit_get ==
    \E out \in GetOutcomes :
        Access("ta_current_limit.get", PyNone, ta_current_limit_get(out))

Call_ta_temperature_get ==
    \E out \in GetOutcomes :
        Access("ta_temperature.get", PyNone, ta_temperature_get(out))

Call_ta_temperature_setpoint_get ==
    \E out \in GetOutcomes :
        Access("ta_temperature_setpoint.get", PyNone, ta_temperature_setpoint_get(out))

Call_ta_temperature_setpoint_set ==
    \E value \in Values, o1 \in GetOutcomes, o2 \in GetOutcomes, o3 \in SetOutcomes :
        Access("ta_temperature_setpoint.set", PyInt(value),
               ta_temperature_setpoint_set(value, o1, o2, o3))

Call_ta_temperature_limits_get ==
    \E o1 \in GetOutcomes, o2 \in GetOutcomes :
        Access("ta_temperature_limits.get", PyNone, ta_temperature_limits_get(o1, o2))

Call_get_parameter ==
    \E param_name \in GenericNames, out \in GetOutcomes :
        Access("get_parameter", PyStr(param_name), get_parameter(param_name, out))

Call_set_parameter ==
    \E param_name \in GenericNames, value \in GenericValues, out \in SetOutcomes :
        Access("set_parameter", PyStr(param_name),
               set_parameter(param_name, value, out))

Call_get_all_supported_parameters ==
    \E outs \in LoopOutcomes(MaxFlakyProbes) :
        Access("get_all_supported_parameters", PyNone,
               get_all_supported_parameters(outs))

Call_get_all_parameters ==
    \E use_dynamic_discovery \in BOOLEAN :
        \E probeOuts \in (IF use_dynamic_discovery
                          THEN LoopOutcomes(MaxFlakyProbes)
                          ELSE {<<>>}),
           readOuts \in LoopOutcomes(MaxFlakyReads) :
            Access("get_all_parameters", PyBool(use_dynamic_discovery),
                   get_all_parameters(use_dynamic_discovery, probeOuts, readOuts))

----------------------------------------------------------------------------
(* The specification *)

\* no TopticaDLCPro constructed yet
TopticaInit ==
    /\ phase = "new"
    /\ client = "None"
    /\ laser_type = "None"
    /\ sdkOpen = FALSE
    /\ openCount = 0
    /\ closeCount = 0
    /\ detections = 0
    /\ last = Done("none", PyNone, Return(<<>>, <<>>))

\* range(start, stop), and the marker of an attribute that was never assigned
range(start, stop) == [start |-> start, stop |-> stop]
NoAttr == "<no attribute>"

\* no AgiltronOpticalSwitch constructed yet
AgiltronInit ==
    /\ swPhase = "new"
    /\ switch_type = "None"
    /\ _channel_range = range(0, 0)
    /\ _current_channel = PyNone
    /\ _product_name = NoAttr
    /\ _serial_number = NoAttr
    /\ swLast = [op |-> "none", arg |-> PyNone, exc |-> "none", ret |-> PyNone,
                 io |-> <<>>]

\* an input of a Siglent descriptor: a channel, a property, and the reply (its echo
\* and its tokens) or the text (a value assigned, or a reply of one token)
SigIn(kind, ch, prop, echo, tokens, text) ==
    [kind |-> kind, ch |-> ch, prop |-> prop, echo |-> echo, tokens |-> tokens,
     text |-> text, value |-> PyNone]
\* an input that is a Python value assigned to a property of a channel
SigVal(kind, ch, prop, value) ==
    [SigIn(kind, ch, prop, <<>>, <<>>, "") EXCEPT !.value = value]
SigNone ==
    [op |-> "none", inst |-> "", ch |-> "", prop |-> "", sent |-> "",
     exc |-> "none", ret |-> <<>>]

\* no Siglent descriptor applied
SiglentInit ==
    /\ sigInput = SigIn("none", "", "", <<>>, <<>>, "")
    /\ sigLast = SigNone

Init ==
    /\ TopticaInit
    /\ AgiltronInit
    /\ SiglentInit

Next ==
    \/ __init__
    \/ Call_shutdown
    \/ __exit__
    \/ Call_emission_get
    \/ Call_emission_set
    \/ Call_wavelength_get
    \/ Call_wavelength_set
    \/ Call_wavelength_actual_get
    \/ Call_wavelength_limits_get
    \/ Call_scan_offset_get
    \/ Call_scan_offset_set
    \/ Call_scan_offset_limits_get
    \/ Call_ctl_current_get
    \/ Call_ctl_current_set
    \/ Call_ctl_current_actual_get
    \/ Call_ta_current_get
    \/ Call_ta_current_set
    \/ Call_ta_current_actual_get
    \/ Call_ta_current_limit_get
    \/ Call_ta_temperature_get
    \/ Call_ta_temperature_setpoint_get
    \/ Call_ta_temperature_setpoint_set
    \/ Call_ta_temperature_limits_get
    \/ Call_get_parameter
    \/ Call_set_parameter
    \/ Call_get_all_supported_parameters
    \/ Call_get_all_parameters

Spec == Init /\ [][Next]_vars

----------------------------------------------------------------------------
(* Vocabulary of the properties *)

CTLOnlyOps ==
    {"wavelength.get", "wavelength.set", "wavelength_actual.get",
     "wavelength_limits.get", "scan_offset.get", "scan_offset.set",
     "scan_offset_limits.get", "ctl_current.get", "ctl_current.set",
     "ctl_current_actual.get"}
TAOnlyOps ==
    {"ta_current.get", "ta_current.set", "ta_current_actual.get",
     "ta_current_limit.get", "ta_temperature.get", "ta_temperature_setpoint.get",
     "ta_temperature_setpoint.set", "ta_temperature_limits.get"}
\* setters checked against a lower and an upper limit read from the device
RangeSetOps == {"wavelength.set", "scan_offset.set", "ta_temperature_setpoint.set"}
\* setters checked against 0 and a current limit read from the device
ClipSetOps == {"ctl_current.set", "ta_current.set"}
ValidationMsgs ==
    {"Wavelength must be between", "Scan offset must be between",
     "Temperature must be between", "Current must be between 0 and",
     "Emission must be True or False"}
\* the limit parameters each range-checked setter reads
LimitNames ==
    "wavelength.set" :> <<"laser1:ctl:wavelength-min", "laser1:ctl:wavelength-max">> @@
    "scan_offset.set" :> <<"laser1:dl:pc:voltage-min", "laser1:dl:pc:voltage-max">> @@
    "ta_temperature_setpoint.set" :>
        <<"laser1:amp:tc:temp-set-min", "laser1:amp:tc:temp-set-max">> @@
    "ctl_current.set" :> <<"laser1:dl:cc:current-clip">> @@
    "ta_current.set" :> <<"ampcc1:channel1:current-clip-limit">>

Methods(calls) == [i \in DOMAIN calls |-> calls[i].m]
Names(calls) == [i \in DOMAIN calls |-> calls[i].name]
NoSet(calls) == \A i \in DOMAIN calls : calls[i].m # "set"
AnyFault(calls) == \E i \in DOMAIN calls : calls[i].out = "fault"
\* the names of the calls that returned, in the order of the calls
RECURSIVE Accepted(_)
Accepted(calls) ==
    IF calls = <<>>
    THEN <<>>
    ELSE IF Head(calls).out = "ok"
         THEN <<Head(calls).name>> \o Accepted(Tail(calls))
         ELSE Accepted(Tail(calls))

\* the last call was a range-checked setter on a device that reported its limits,
\* and the requested value lies outside them
OutOfReportedLimits ==
    \/ /\ last.op \in RangeSetOps
       /\ Len(last.calls) >= 2
       /\ last.calls[1].out = "ok"
       /\ last.calls[2].out = "ok"
       /\ (last.arg.i < last.calls[1].ret \/ last.arg.i > last.calls[2].ret)
    \/ /\ last.op \in ClipSetOps
       /\ Len(last.calls) >= 1
       /\ last.calls[1].out = "ok"
       /\ (last.arg.i < 0 \/ last.arg.i > last.calls[1].ret)

ValidationErrorRaised == last.exc = "ValueError" /\ last.msg \in ValidationMsgs

----------------------------------------------------------------------------
(* C1 *)

\* C1: on an instrument whose laser_type is not CTL every access to a CTL-only
\* property raises the CTL-only ValueError, on one whose laser_type is not TA every
\* access to a TA-only property raises the TA-only ValueError, and in both cases the
\* access has issued no SDK call.
C1_VariantGate ==
    /\ (last.op \in CTLOnlyOps /\ laser_type # "CTL")
          => (last.exc = "ValueError" /\ last.msg = MSG_CTL_ONLY /\ last.calls = <<>>)
    /\ (last.op \in TAOnlyOps /\ laser_type # "TA")
          => (last.exc = "ValueError" /\ last.msg = MSG_TA_ONLY /\ last.calls = <<>>)

\* a TA-only property was read on an open CTL laser and was refused
C1_Witness ==
    /\ last.op = "ta_current.get"
    /\ laser_type = "CTL"
    /\ client = "Client"
    /\ last.exc = "ValueError"

----------------------------------------------------------------------------
(* C2 *)

\* the reply the device gave to the type query of the construction
TypeReplyOf(calls) == calls[2].ret
TypeQueryAnswered ==
    last.op = "__init__" /\ Len(last.calls) = 2 /\ last.calls[2].out = "ok"

\* C2: when the type query of the construction is answered, the construction
\* succeeds and laser_type is CTL for the reply "CTL", TA for a reply that contains
\* "BoosTApro", and Unknown for every other reply.
C2_VariantDetection ==
    TypeQueryAnswered =>
        /\ phase = "ready"
        /\ last.exc = "none"
        /\ laser_type \in {"CTL", "TA", "Unknown"}
        /\ (TypeReplyOf(last.calls) = STR_CTL) => laser_type = "CTL"
        /\ (TypeReplyOf(last.calls) # STR_CTL
                /\ StrIn(STR_BoosTApro, TypeReplyOf(last.calls))) => laser_type = "TA"
        /\ (TypeReplyOf(last.calls) # STR_CTL
                /\ ~StrIn(STR_BoosTApro, TypeReplyOf(last.calls)))
              => laser_type = "Unknown"

\* a reply that contains "BoosTApro" away from its start was classified as TA
C2_Witness ==
    /\ TypeQueryAnswered
    /\ TypeReplyOf(last.calls) = <<"D", "L", "C", " ">> \o STR_BoosTApro
    /\ laser_type = "TA"
    /\ phase = "ready"

----------------------------------------------------------------------------
(* C3 *)

\* C3: once the object is constructed laser_type is CTL, TA or Unknown, the
\* classification has run once, and no operation changes laser_type or runs the
\* classification again.
C3_VariantSetOnce ==
    /\ [](phase = "ready" => (laser_type \in {"CTL", "TA", "Unknown"} /\ detections = 1))
    /\ [][phase = "ready" => (laser_type' = laser_type /\ detections' = detections)]_vars

\* a snapshot of a laser of unknown type read "laser1:type" again, and the variant
\* was not detected a second time
C3_Witness ==
    /\ phase = "ready"
    /\ last.op = "get_all_parameters"
    /\ last.exc = "none"
    /\ \E i \in DOMAIN last.calls :
          last.calls[i].name = "laser1:type" /\ last.calls[i].out = "ok"
    /\ laser_type = "Unknown"
    /\ detections = 1

----------------------------------------------------------------------------
(* C4 *)

\* C4: a range-checked setter given a value outside the limits the device reported,
\* and the emission setter given a value that is not a bool, raise their validation
\* error, and the call has issued no SDK set.
C4_RejectedSetWritesNothing ==
    /\ OutOfReportedLimits => (ValidationErrorRaised /\ NoSet(last.calls))
    /\ (last.op = "emission.set" /\ ~IsBool(last.arg))
          => /\ last.exc = "ValueError"
             /\ last.msg = "Emission must be True or False"
             /\ NoSet(last.calls)

\* a wavelength above the reported maximum was refused on a CTL laser
C4_Witness ==
    /\ last.op = "wavelength.set"
    /\ OutOfReportedLimits
    /\ last.arg.i > last.calls[2].ret
    /\ last.msg = "Wavelength must be between"

----------------------------------------------------------------------------
(* C5 *)

RangeCheckRejected ==
    last.op \in (RangeSetOps \cup ClipSetOps) /\ ValidationErrorRaised

\* C5 as stated: when a range-checked setter raises its validation error, the call has
\* exchanged no request with the device.
C5_Original == RangeCheckRejected => last.calls = <<>>

\* C5 as amended: a range-checked setter given a value outside the reported limits
\* raises its validation error, and when it raises it the call has issued exactly the
\* SDK gets of its limit parameters, each answered, and nothing else (no SDK set).
C5_ValidationAfterLimitQueries ==
    /\ OutOfReportedLimits => ValidationErrorRaised
    /\ RangeCheckRejected
          => /\ Names(last.calls) = LimitNames[last.op]
             /\ \A i \in DOMAIN last.calls :
                   last.calls[i].m = "get" /\ last.calls[i].out = "ok"

\* a negative CTL current was refused after the current limit was read
C5_Witness ==
    /\ last.op = "ctl_current.set"
    /\ RangeCheckRejected
    /\ last.arg.i < 0
    /\ Len(last.calls) = 1

----------------------------------------------------------------------------
(* C6 *)

DiscoveryDone == last.op = "get_all_supported_parameters" /\ last.calls # <<>>
IsSorted(names) ==
    \A i \in DOMAIN names, j \in DOMAIN names : i < j => StrLess(names[i], names[j])

\* C6: a discovery in which no read failed with a connection-level fault returns
\* exactly the candidates whose read the device accepted: every candidate is probed,
\* the result holds the accepted ones and no other name, none twice, in
\* lexicographic order.
C6_DiscoveryResult ==
    (DiscoveryDone /\ ~AnyFault(last.calls))
        => /\ last.exc = "none"
           /\ ToSet(Names(last.calls)) =
                  ToSet(DefaultList[laser_type]) \cup ToSet(EnhancedList[laser_type])
           /\ Len(last.calls) = Cardinality(ToSet(Names(last.calls)))
           /\ ToSet(last.names) = ToSet(Accepted(last.calls))
           /\ Len(last.names) = Cardinality(ToSet(last.names))
           /\ IsSorted(last.names)

\* the device rejected two candidates and accepted the others
C6_Witness ==
    /\ DiscoveryDone
    /\ ~AnyFault(last.calls)
    /\ last.calls[1].out = "decop"
    /\ last.calls[2].out = "decop"
    /\ Len(last.names) = Len(last.calls) - 2
    /\ Len(last.names) > 0

----------------------------------------------------------------------------
(* C7 *)

----------------------------------------------------------------------------
(* C8 *)

SnapshotDone == last.op = "get_all_parameters" /\ last.exc = "none"

\* C8: the discovery_method of the metadata of a snapshot is "dynamic" exactly when
\* its parameter names were probed from the device and "predefined" exactly when the
\* predefined default list was used.
C8_MethodTagNamesList ==
    SnapshotDone
        => /\ last.meta.discovery_method \in {"dynamic", "predefined"}
           /\ (last.meta.discovery_method = "dynamic") <=> (last.source = "probed")
           /\ (last.meta.discovery_method = "predefined") <=> (last.source = "default")

\* a snapshot used the predefined list and is tagged so
C8_WitnessPredefined ==
    /\ SnapshotDone
    /\ last.source = "default"
    /\ last.names = DefaultList[laser_type]
    /\ last.meta.discovery_method = "predefined"

\* a snapshot used the names probed from the device, one of them rejected, and is
\* tagged dynamic
C8_Witness ==
    /\ SnapshotDone
    /\ last.source = "probed"
    /\ Len(last.names) < Len(EnhancedList[laser_type])
    /\ last.meta.discovery_method = "dynamic"

----------------------------------------------------------------------------
(* C9 *)

\* C9: shutting down an open instrument, by shutdown() or by leaving the context
\* manager, issues SDK set("emission", False) and then closes the SDK client, once.
C9_ShutdownDisablesEmission ==
    (last.op \in {"shutdown", "__exit__"} /\ last.calls # <<>>)
        => /\ Methods(last.calls) = <<"set", "close">>
           /\ last.calls[1].name = "emission"
           /\ last.calls[1].arg = PyBool(FALSE)
           /\ closeCount = 1

----------------------------------------------------------------------------
(* C10 *)

ConstructionFailed ==
    /\ last.op = "__init__"
    /\ \E i \in DOMAIN last.calls : last.calls[i].out # "ok"

\* C10: when opening the SDK client or the type query fails, the construction raises
\* ConnectionError with the client reference reset to None and no object is returned:
\* no operation ever acts on it, and an object that was returned has a detected
\* laser_type.
C10_InitFailureFatal ==
    /\ ConstructionFailed
          => (phase = "failed" /\ last.exc = "ConnectionError" /\ client = "None")
    /\ phase = "failed" => (last.op = "__init__" /\ client = "None")
    /\ phase = "ready" => laser_type # "None"

\* the client was opened, the type query raised, and the construction failed
C10_Witness ==
    /\ phase = "failed"
    /\ Len(last.calls) = 2
    /\ last.calls[1].out = "ok"
    /\ last.calls[2].out = "decop"
    /\ last.exc = "ConnectionError"

----------------------------------------------------------------------------
(* C17 *)

\* the supported-parameter set was determined by probing the device
CapabilitySetBuilt ==
    /\ last.op \in {"get_all_supported_parameters", "get_all_parameters"}
    /\ last.exc = "none"
    /\ last.source = "probed"
\* the calls start with a probe of every candidate, in the order of the candidates
ProbesCandidates(calls) ==
    /\ Len(calls) >= Len(EnhancedList[laser_type])
    /\ SubSeq(Names(calls), 1, Len(EnhancedList[laser_type])) = EnhancedList[laser_type]

\* C17: once the supported-parameter set has been determined, a call of
\* get_all_parameters does not probe the candidates again; only
\* get_all_supported_parameters does.
C17_CapabilitySetBuiltOnce ==
    [][(CapabilitySetBuilt /\ last'.op = "get_all_parameters")
       => ~ProbesCandidates(last'.calls)]_vars

----------------------------------------------------------------------------
(* C18 *)

\* the reads of the last snapshot: its calls after those of the discovery
SnapshotReads ==
    SubSeq(last.calls, Len(last.calls) - Len(last.names) + 1, Len(last.calls))

\* C18: a get_all_parameters that returns gives one entry for every name of the
\* list it used, next to the metadata; every name is read once, in the order of the
\* list, also after a read that failed with a device error; the entry of such a
\* read is its error message and the entry of any other read the value; the
\* parameter_count of the metadata is the length of the list.  On an open
\* connection it returns unless a read raises something other than a device error.
C18_SnapshotEntries ==
    /\ SnapshotDone
           => /\ DOMAIN last.params = ToSet(last.names)
              /\ Len(last.calls) >= Len(last.names)
              /\ Names(SnapshotReads) = last.names
              /\ \A i \in DOMAIN last.names :
                     last.params[last.names[i]] =
                         IF SnapshotReads[i].out = "decop" THEN "ERROR" ELSE "value"
              /\ last.meta # NoMeta
              /\ last.meta.parameter_count = Len(last.names)
    /\ (last.op = "get_all_parameters" /\ client = "Client" /\ ~AnyFault(last.calls))
           => last.exc = "none"

\* a snapshot whose first read failed with a device error and whose second read
\* returned
C18_Witness ==
    /\ SnapshotDone
    /\ Len(last.names) >= 2
    /\ SnapshotReads[1].out = "decop"
    /\ last.params[last.names[1]] = "ERROR"
    /\ last.params[last.names[2]] = "value"
    /\ last.meta.parameter_count = Len(last.names)

----------------------------------------------------------------------------
(* C19 *)

\* the operations that do not depend on the variant
AgnosticOps ==
    {"emission.get", "emission.set", "get_parameter", "set_parameter",
     "get_all_parameters"}

\* C19: on an open connection to a laser of unknown variant every CTL-specific and
\* every TA-specific property access fails with the error of its variant and calls
\* nothing of the SDK, while emission, get_parameter, set_parameter and
\* get_all_parameters are not refused for the variant: they call the SDK (emission
\* set for a bool) and succeed when its calls return.
C19_UnknownVariant ==
    (laser_type = "Unknown" /\ client = "Client")
    => /\ last.op \in CTLOnlyOps
              => (last.exc = "ValueError" /\ last.msg = MSG_CTL_ONLY /\ last.calls = <<>>)
       /\ last.op \in TAOnlyOps
              => (last.exc = "ValueError" /\ last.msg = MSG_TA_ONLY /\ last.calls = <<>>)
       /\ last.op \in AgnosticOps
              => /\ last.msg \notin {MSG_CTL_ONLY, MSG_TA_ONLY}
                 /\ (last.op = "emission.set" /\ ~IsBool(last.arg)) \/ last.calls # <<>>
                 /\ (last.calls # <<>> /\ \A i \in DOMAIN last.calls :
                                              last.calls[i].out = "ok")
                        => last.exc = "none"

\* a parameter was set through set_parameter on a laser of unknown variant
C19_Witness ==
    /\ laser_type = "Unknown"
    /\ client = "Client"
    /\ last.op = "set_parameter"
    /\ last.exc = "none"
    /\ Methods(last.calls) = <<"set">>

----------------------------------------------------------------------------
(* Agiltron optical switch: the transport adapter *)

\* channel numbers assigned are drawn from -1..MaxRequest
MaxRequest == 9

\* outcomes of one transport call: it completes (a query with the reply val) or raises
SentOk == [kind |-> "ok", val |-> ""]
TransportFault == [kind |-> "fault", val |-> ""]
WriteOutcomes == {SentOk, TransportFault}
AskOutcomes ==
    {[kind |-> "ok", val |-> "FFSW-1x8"], [kind |-> "ok", val |-> "SN0042"],
     TransportFault}

\* self.write(text), self.adapter.write_raw(frame), self.ask(text)
Write(text, out) ==
    [m |-> "write", text |-> text, frame |-> <<>>, out |-> out.kind, reply |-> ""]
WriteRaw(frame, out) ==
    [m |-> "write_raw", text |-> "", frame |-> frame, out |-> out.kind, reply |-> ""]
Ask(text, out) ==
    [m |-> "ask", text |-> text, frame |-> <<>>, out |-> out.kind, reply |-> out.val]

\* str(n) of an integer, as the f-string of the text command formats it
Digit == <<"0", "1", "2", "3", "4", "5", "6", "7", "8", "9">>
RECURSIVE str(_)
str(n) ==
    IF n < 0
    THEN "-" \o str(0 - n)
    ELSE IF n < 10
         THEN Digit[n + 1]
         ELSE str(n \div 10) \o Digit[(n % 10) + 1]

\* value in range(start, stop), list(range(start, stop)), for integers
InRange(value, r) == r.start <= value /\ value < r.stop
list(r) == [i \in 1..(IF r.stop > r.start THEN r.stop - r.start ELSE 0) |->
                r.start + i - 1]

\* bytes([...]) of the binary command
bytes(b) == [i \in DOMAIN b |-> b[i] % 256]

----------------------------------------------------------------------------
(* Agiltron optical switch: the methods *)

SWITCH_TYPES == {"1x2", "1x8"}

\* outcome of a method: it returns ret or raises exc; io are its transport calls
SwReturn(ret, io) == [exc |-> "none", ret |-> ret, io |-> io]
SwRaise(exc, io) == [exc |-> exc, ret |-> PyNone, io |-> io]

\* a _get_id that keeps the product name when the second query fails
_get_id_keeps_product(o1, o2) ==
    IF o1.kind # "ok"
    THEN [product |-> "Unknown", serial |-> "Unknown", io |-> <<Ask("*PN", o1)>>]
    ELSE IF o2.kind # "ok"
         THEN [product |-> o1.val, serial |-> "Unknown",
               io |-> <<Ask("*PN", o1), Ask("*SN", o2)>>]
         ELSE [product |-> o1.val, serial |-> o2.val,
               io |-> <<Ask("*PN", o1), Ask("*SN", o2)>>]

\* _get_id(): the two attributes it leaves and its queries
_get_id(o1, o2) ==
    IF o1.kind # "ok"
    THEN [product |-> "Unknown", serial |-> "Unknown", io |-> <<Ask("*PN", o1)>>]
    ELSE IF o2.kind # "ok"
         THEN [product |-> "Unknown", serial |-> "Unknown",
               io |-> <<Ask("*PN", o1), Ask("*SN", o2)>>]
         ELSE [product |-> o1.val, serial |-> o2.val,
               io |-> <<Ask("*PN", o1), Ask("*SN", o2)>>]

\* the id property
id_get ==
    IF switch_type = "1x8"
    THEN [product |-> IF _product_name = NoAttr THEN "Unknown" ELSE _product_name,
          serial |-> IF _serial_number = NoAttr THEN "Unknown" ELSE _serial_number]
    ELSE [product |-> "Agiltron 1x2 Switch", serial |-> "Unknown"]

\* the channel property: getattr(self, '_current_channel', 1) on either branch
channel_get ==
    IF _current_channel = PyNone THEN PyInt(1) ELSE _current_channel

\* the binary command with the two opcode bytes exchanged
msg_1x2_opcode_swapped(value) ==
    IF value = 1
    THEN bytes(<<18, 1, 0, 1>>)
    ELSE IF value = 2
         THEN bytes(<<18, 1, 0, 2>>)
         ELSE <<>>

\* msg of the 1x2 branch of the channel setter (0x01, 0x12, 0x00, channel); <<>>
\* stands for the name left unbound when value is neither 1 nor 2
msg_1x2(value) ==
    IF value = 1
    THEN bytes(<<1, 18, 0, 1>>)
    ELSE IF value = 2
         THEN bytes(<<1, 18, 0, 2>>)
         ELSE <<>>

\* the channel setter with the check of the value made after the command was sent
channel_set_checks_late(value, out) ==
    LET sent == IF switch_type = "1x8"
                THEN <<Write("*SW00" \o str(value), out)>>
                ELSE IF switch_type = "1x2" /\ msg_1x2(value) # <<>>
                     THEN <<WriteRaw(msg_1x2(value), out)>>
                     ELSE <<>>
    IN  IF sent # <<>> /\ out.kind # "ok"
        THEN [SwRaise("TransportError", sent) EXCEPT !.ret = _current_channel]
        ELSE IF ~InRange(value, _channel_range)
             THEN [SwRaise("ValueError", sent) EXCEPT !.ret = PyInt(value)]
             ELSE SwReturn(PyInt(value), sent)

\* a channel setter that records the channel before it writes
channel_set_tracks_before_write(value, out) ==
    IF ~InRange(value, _channel_range)
    THEN [SwRaise("ValueError", <<>>) EXCEPT !.ret = _current_channel]
    ELSE IF switch_type = "1x8"
    THEN LET sent == <<Write("*SW00" \o str(value), out)>>
         IN  IF out.kind # "ok"
             THEN [SwRaise("TransportError", sent) EXCEPT !.ret = PyInt(value)]
             ELSE SwReturn(PyInt(value), sent)
    ELSE LET sent == <<WriteRaw(msg_1x2(value), out)>>
         IN  IF out.kind # "ok"
             THEN [SwRaise("TransportError", sent) EXCEPT !.ret = PyInt(value)]
             ELSE SwReturn(PyInt(value), sent)

\* the channel setter; ret is the value of self._current_channel it leaves
channel_set(value, out) ==
    IF ~InRange(value, _channel_range)
    THEN [SwRaise("ValueError", <<>>) EXCEPT !.ret = _current_channel]
    ELSE IF switch_type = "1x8"
    THEN LET sent == <<Write("*SW00" \o str(value), out)>>
         IN  IF out.kind # "ok"
             THEN [SwRaise("TransportError", sent) EXCEPT !.ret = _current_channel]
             ELSE SwReturn(PyInt(value), sent)
    ELSE IF switch_type = "1x2"
    THEN LET msg == msg_1x2(value)
             sent == <<WriteRaw(msg, out)>>
         IN  IF msg = <<>>
             THEN [SwRaise("UnboundLocalError", <<>>) EXCEPT !.ret = _current_channel]
             ELSE IF out.kind # "ok"
             THEN [SwRaise("TransportError", sent) EXCEPT !.ret = _current_channel]
             ELSE SwReturn(PyInt(value), sent)
    ELSE SwReturn(_current_channel, <<>>)

\* get_available_channels()
get_available_channels == list(_channel_range)

----------------------------------------------------------------------------
(* Agiltron optical switch: the calls a user of the object makes *)

SwDone(op, arg, r) ==
    [op |-> op, arg |-> arg, exc |-> r.exc, ret |-> r.ret, io |-> r.io]

\* AgiltronOpticalSwitch(adapter, switch_type=...): a switch type that is not
\* supported raises and no object is returned
Agiltron__init__ ==
    /\ swPhase = "new"
    /\ \E st \in {"1x2", "1x8", "1x4"}, o1 \in AskOutcomes, o2 \in AskOutcomes :
          IF st \notin SWITCH_TYPES
          THEN /\ swPhase' = "failed"
               /\ swLast' = SwDone("__init__", PyStr(st), SwRaise("ValueError", <<>>))
               /\ UNCHANGED <<switch_type, _channel_range, _product_name,
                              _serial_number>>
          ELSE /\ swPhase' = "ready"
               /\ switch_type' = st
               /\ _channel_range' = IF st = "1x8" THEN range(1, 9) ELSE range(1, 3)
               /\ IF st = "1x8"
                  THEN LET got == _get_id(o1, o2)
                       IN  /\ _product_name' = got.product
                           /\ _serial_number' = got.serial
                           /\ swLast' = SwDone("__init__", PyStr(st),
                                               SwReturn(PyNone, got.io))
                  ELSE /\ UNCHANGED <<_product_name, _serial_number>>
                       /\ swLast' = SwDone("__init__", PyStr(st),
                                           SwReturn(PyNone, <<>>))
    /\ UNCHANGED _current_channel
    /\ UNCHANGED <<topticaVars, siglentVars>>

\* a property access or method call that assigns no attribute of the object
SwAccess(op, arg, r) ==
    /\ swPhase = "ready"
    /\ swLast' = SwDone(op, arg, r)
    /\ UNCHANGED <<swPhase, switch_type, _channel_range, _current_channel,
                   _product_name, _serial_number>>
    /\ UNCHANGED <<topticaVars, siglentVars>>

Call_id_get == SwAccess("id.get", PyNone, SwReturn(id_get, <<>>))

Call_channel_get == SwAccess("channel.get", PyNone, SwReturn(channel_get, <<>>))

Call_get_available_channels ==
    SwAccess("get_available_channels", PyNone, SwReturn(get_available_channels, <<>>))

\* switch.channel = value
Call_channel_set ==
    /\ swPhase = "ready"
    /\ \E value \in (0 - 1)..MaxRequest, out \in WriteOutcomes :
          LET r == channel_set(value, out)
          IN  /\ _current_channel' = r.ret
              /\ swLast' = SwDone("channel.set", PyInt(value), r)
    /\ UNCHANGED <<swPhase, switch_type, _channel_range, _product_name,
                   _serial_number>>
    /\ UNCHANGED <<topticaVars, siglentVars>>

\* switch_to_channel(channel): the assignment, then the value the getter returns
Call_switch_to_channel ==
    /\ swPhase = "ready"
    /\ \E channel \in (0 - 1)..MaxRequest, out \in WriteOutcomes :
          LET r == channel_set(channel, out)
          IN  /\ _current_channel' = r.ret
              /\ swLast' = SwDone("switch_to_channel", PyInt(channel),
                                  IF r.exc # "none"
                                  THEN r
                                  ELSE [r EXCEPT !.ret =
                                           IF r.ret = PyNone THEN PyInt(1) ELSE r.ret])
    /\ UNCHANGED <<swPhase, switch_type, _channel_range, _product_name,
                   _serial_number>>
    /\ UNCHANGED <<topticaVars, siglentVars>>

\* repr(switch): the four values put into the text
Call___repr__ ==
    SwAccess("__repr__", PyNone,
             SwReturn([Type |-> switch_type,
                       Product |-> id_get.product,
                       Serial |-> id_get.serial,
                       CurrentChannel |-> IF _current_channel = PyNone
                                          THEN "Unknown"
                                          ELSE str(_current_channel.i)],
                      <<>>))

NextAgiltron ==
    \/ Agiltron__init__
    \/ Call_id_get
    \/ Call_channel_get
    \/ Call_get_available_channels
    \/ Call_channel_set
    \/ Call_switch_to_channel
    \/ Call___repr__

SpecAgiltron == Init /\ [][NextAgiltron]_vars

----------------------------------------------------------------------------
(* Vocabulary of the Agiltron properties *)

\* the operations that assign the channel
ChannelSetOps == {"channel.set", "switch_to_channel"}
\* the channels each switch type accepts
ValidChannels(st) == IF st = "1x8" THEN 1..8 ELSE 1..2
\* the transport calls that read from the device
Reads(io) == {i \in DOMAIN io : io[i].m \in {"ask", "read"}}

----------------------------------------------------------------------------
(* C11 *)

\* C11: on a 1x2 switch, assigning channel c in {1, 2} makes exactly one transport
\* call, the raw write of the four bytes 0x01, 0x12, 0x00, c, and reads nothing.
C11_BinaryFrame ==
    (/\ swLast.op \in ChannelSetOps
     /\ switch_type = "1x2"
     /\ swLast.arg.i \in {1, 2})
    => /\ Len(swLast.io) = 1
       /\ swLast.io[1].m = "write_raw"
       /\ swLast.io[1].frame = <<1, 18, 0, swLast.arg.i>>
       /\ swLast.io[1].text = ""
       /\ Reads(swLast.io) = {}

\* channel 2 was assigned on a 1x2 switch and the frame 01 12 00 02 went out
C11_Witness ==
    /\ swLast.op = "channel.set"
    /\ switch_type = "1x2"
    /\ swLast.arg = PyInt(2)
    /\ swLast.exc = "none"
    /\ swLast.io = <<WriteRaw(<<1, 18, 0, 2>>, SentOk)>>

----------------------------------------------------------------------------
(* C12 *)

\* C12: on either switch type, assigning a channel outside the valid range (1..2
\* on a 1x2 switch, 1..8 on a 1x8 switch) raises ValueError, makes no transport
\* call, and leaves the tracked current channel as it was.
C12_RejectedChannelSendsNothing ==
    [][(/\ swPhase = "ready"
        /\ swLast'.op \in ChannelSetOps
        /\ swLast'.arg.i \notin ValidChannels(switch_type))
       => /\ swLast'.exc = "ValueError"
          /\ swLast'.io = <<>>
          /\ _current_channel' = _current_channel]_vars

\* channel 9 was refused on a 1x8 switch that stays on channel 3
C12_Witness ==
    /\ swLast.op = "channel.set"
    /\ switch_type = "1x8"
    /\ swLast.arg = PyInt(9)
    /\ swLast.exc = "ValueError"
    /\ swLast.io = <<>>
    /\ _current_channel = PyInt(3)

----------------------------------------------------------------------------
(* Siglent drivers: Python text and dict operations, on texts kept as the     *)
(* sequence of their characters                                               *)

\* s[n:]
Slice(s, n) == IF n >= Len(s) THEN <<>> ELSE SubSeq(s, n + 1, Len(s))

\* s.split(sep) for a separator of one character: a text without it is one token,
\* the empty text included
RECURSIVE split(_, _)
split(s, sep) ==
    IF \A i \in DOMAIN s : s[i] # sep
    THEN <<s>>
    ELSE LET k == CHOOSE i \in DOMAIN s :
                      s[i] = sep /\ \A j \in 1..(i - 1) : s[j] # sep
         IN  <<SubSeq(s, 1, k - 1)>> \o split(Slice(s, k), sep)

\* s.split(): the words between runs of blanks; none for a text of blanks only
RECURSIVE split_ws(_)
split_ws(s) ==
    IF s = <<>>
    THEN <<>>
    ELSE IF Head(s) = " "
         THEN split_ws(Tail(s))
         ELSE LET rest == split(s, " ")
              IN  <<rest[1]>> \o split_ws(Slice(s, Len(rest[1])))

\* sep.join(tokens)
RECURSIVE join(_, _)
join(tokens, sep) ==
    IF tokens = <<>>
    THEN <<>>
    ELSE IF Len(tokens) = 1
         THEN tokens[1]
         ELSE tokens[1] \o <<sep>> \o join(Tail(tokens), sep)

\* a dict, as the sequence of its items in insertion order; d[key] = value
DictSet(d, key, value) ==
    IF \E i \in DOMAIN d : d[i].key = key
    THEN [i \in DOMAIN d |-> IF d[i].key = key
                             THEN [key |-> key, value |-> value]
                             ELSE d[i]]
    ELSE Append(d, [key |-> key, value |-> value])

----------------------------------------------------------------------------
(* Siglent SDG1032X: the channel *)

\* outcome of a descriptor or method: it returns ret or raises exc
SigReturn(ret) == [exc |-> "none", ret |-> ret]
SigRaise(exc) == [exc |-> exc, ret |-> <<>>]

\* the loop of get_waveform_settings from position p (index p - 1) on
RECURSIVE SettingsLoop(_, _, _)
SettingsLoop(settings_str, p, settings) ==
    IF p > Len(settings_str)
    THEN SigReturn(settings)
    ELSE IF ((p - 1) % 2) = 0
         THEN IF p + 1 > Len(settings_str)
              THEN SigRaise("IndexError")
              ELSE SettingsLoop(settings_str, p + 1,
                                DictSet(settings, settings_str[p], settings_str[p + 1]))
         ELSE SettingsLoop(settings_str, p + 1, settings)

\* get_waveform_settings with a command echo of five characters
get_waveform_settings_echo_of_5(response) ==
    SettingsLoop(split(Slice(response, 5), ","), 1, <<>>)

\* get_waveform_settings(), of the text the device replied
get_waveform_settings(response) ==
    SettingsLoop(split(Slice(response, 8), ","), 1, <<>>)

STR_ON == <<"O", "N">>
STR_NOR == <<"N", "O", "R">>
STR_HZ == <<"H", "Z">>

\* get_process_list of output_enabled: v[0].split()[-1] == "ON" if len(v) > 0 else False
output_enabled_get_process_list(v) ==
    IF Len(v) > 0
    THEN IF split_ws(v[1]) = <<>>
         THEN SigRaise("IndexError")
         ELSE SigReturn(split_ws(v[1])[Len(split_ws(v[1]))] = STR_ON)
    ELSE SigReturn(FALSE)

\* get_process_list of output_polarity: v[6] if len(v) > 6 else "NOR"
output_polarity_get_process_list(v) ==
    IF Len(v) > 6 THEN SigReturn(v[7]) ELSE SigReturn(STR_NOR)

\* get_process_list of output_load: v[2] if len(v) > 2 else "HZ"
output_load_get_process_list(v) ==
    IF Len(v) > 2 THEN SigReturn(v[3]) ELSE SigReturn(STR_HZ)

\* get_process_list of noise_addition_enabled: v[1] == "ON" if len(v) > 1 else False
noise_addition_enabled_get_process_list(v) ==
    IF Len(v) > 1 THEN SigReturn(v[2] = STR_ON) ELSE SigReturn(FALSE)

----------------------------------------------------------------------------
(* Siglent drivers: channels and their commands *)

\* the channels each instrument creates, with the id given to ChannelCreator
SDG1032X_channels == [channel_1 |-> "1", channel_2 |-> "2"]
SVA1000X_channels == [trace1 |-> 1, trace2 |-> 2, trace3 |-> 3, trace4 |-> 4]

\* the get commands of SDG1032XChannel, cut at the placeholder of the channel id
SDG1032XChannel_get_command ==
    [output_enabled |-> <<":C", "{ch}", ":OUTP?">>,
     output_polarity |-> <<":C", "{ch}", ":OUTP?">>,
     output_load |-> <<":C", "{ch}", ":OUTP?">>,
     noise_addition_enabled |-> <<":C", "{ch}", ":NOISE_ADD?">>,
     get_waveform_settings |-> <<":BSWV", "{ch}", "?">>]

\* the get commands of TraceChannel, cut at the placeholder of the channel id
TraceChannel_get_command ==
    [mode |-> <<":TRACe", "{ch}", ":MODE?">>,
     data |-> <<":TRACe:DATA? ", "{ch}">>,
     math_input_x |-> <<":TRACe:MATH:X?">>,
     math_input_y |-> <<":TRACe:MATH:Y?">>,
     math_input_z |-> <<":TRACe:MATH:Z?">>,
     detection_mode |-> <<":DETector:TRACe", "{ch}", "?">>,
     count_average |-> <<":AVERage:TRACe", "{ch}", ":COUNt?">>,
     average_number |-> <<":AVERage:TRACe", "{ch}", "?">>]

\* the command with every placeholder replaced by the text of the channel id
RECURSIVE insert_id(_, _)
insert_id(command, id) ==
    IF command = <<>>
    THEN ""
    ELSE (IF Head(command) = "{ch}" THEN id ELSE Head(command))
         \o insert_id(Tail(command), id)

----------------------------------------------------------------------------
(* Siglent drivers: the inputs and the calls *)

\* a reply is split into at most MaxTokens tokens
MaxTokens == 7
\* a waveform reply carries at most MaxFields comma-separated fields after its echo
MaxFields == 4

STR_OUTP_OFF == <<"C", "1", ":", "O", "U", "T", "P", " ", "O", "F", "F">>
SDGTokens == {<<>>, STR_ON, STR_OUTP_OFF}
TokenLists == UNION {[1..n -> SDGTokens] : n \in 0..MaxTokens}

STR_KEY1 == <<"K", "E", "Y", "1">>
STR_KEY2 == <<"K", "E", "Y", "2">>
STR_10 == <<"1", "0">>
STR_20 == <<"2", "0">>
STR_ECHO_BSWV == <<"C", "1", ":", "B", "S", "W", "V", " ">>
STR_ECHO_5 == <<"E", "C", "H", "O", ",">>
WaveformFields == {STR_KEY1, STR_10, STR_KEY2, STR_20}
WaveformEchoes == {STR_ECHO_BSWV, STR_ECHO_5, <<>>}
FieldLists == UNION {[1..n -> WaveformFields] : n \in 0..MaxFields}

\* the inputs of the four reply parsers, of get_waveform_settings and of the gets
\* of a trace
ParserInputs ==
    {SigIn("tokens", ch, "", <<>>, v, "") :
        ch \in DOMAIN SDG1032X_channels, v \in TokenLists}
WaveformInputs ==
    {SigIn("response", ch, "", echo, tokens, "") :
        ch \in DOMAIN SDG1032X_channels, echo \in WaveformEchoes, tokens \in FieldLists}
TraceInputs ==
    {SigIn("trace", ch, prop, <<>>, <<>>, "") :
        ch \in DOMAIN SVA1000X_channels, prop \in DOMAIN TraceChannel_get_command}

\* the record kept of the last descriptor applied: the request it sent and its outcome
SigDone(op, inst, ch, prop, sent, r) ==
    [op |-> op, inst |-> inst, ch |-> ch, prop |-> prop, sent |-> sent,
     exc |-> r.exc, ret |-> r.ret]

SDGGet(prop, r) ==
    /\ sigInput.kind = "tokens"
    /\ sigLast' = SigDone("get", "SDG1032X", sigInput.ch, prop,
                          insert_id(SDG1032XChannel_get_command[prop],
                                    SDG1032X_channels[sigInput.ch]),
                          r)
    /\ UNCHANGED <<sigInput, topticaVars, agiltronVars>>

Call_output_enabled_get ==
    SDGGet("output_enabled", output_enabled_get_process_list(sigInput.tokens))

Call_output_polarity_get ==
    SDGGet("output_polarity", output_polarity_get_process_list(sigInput.tokens))

Call_output_load_get ==
    SDGGet("output_load", output_load_get_process_list(sigInput.tokens))

Call_noise_addition_enabled_get ==
    SDGGet("noise_addition_enabled",
           noise_addition_enabled_get_process_list(sigInput.tokens))

Call_get_waveform_settings ==
    /\ sigInput.kind = "response"
    /\ sigLast' = SigDone("get_waveform_settings", "SDG1032X", sigInput.ch,
                          "get_waveform_settings",
                          insert_id(SDG1032XChannel_get_command.get_waveform_settings,
                                    SDG1032X_channels[sigInput.ch]),
                          get_waveform_settings(sigInput.echo \o join(sigInput.tokens, ",")))
    /\ UNCHANGED <<sigInput, topticaVars, agiltronVars>>

\* a get of a TraceChannel descriptor: the request it sends
Call_trace_get ==
    /\ sigInput.kind = "trace"
    /\ sigLast' = SigDone("get", "SVA1000X", sigInput.ch, sigInput.prop,
                          insert_id(TraceChannel_get_command[sigInput.prop],
                                    str(SVA1000X_channels[sigInput.ch])),
                          SigReturn(<<>>))
    /\ UNCHANGED <<sigInput, topticaVars, agiltronVars>>

----------------------------------------------------------------------------
(* Siglent SVA1000X: the on/off controls *)

\* values of the controls declared with map_values=True
ON_OFF_values == <<"ON", "OFF", "1", "0">>

\* the command of each of these controls; the get command adds "?", the set
\* command adds " %s"
SVA1000X_on_off_command ==
    [frequency_step_auto |-> ":FREQuency:CENTer:STEP:AUTO",
     attenuation_auto |-> ":SENSe:POWer:RF:ATTenuation:AUTO",
     preamp |-> ":SENSe:POWer:RF:GAIN:STATe",
     sweep_time_auto_enabled |-> ":SWEep:TIME:AUTO",
     continuous_sweep_enabled |-> ":INITiate:CONTinuous",
     resolution_bandwidth_auto |-> ":SENSe:BANDwidth:RESolution:AUTO",
     video_bandwidth_auto |-> ":SENSe:BANDwidth:VIDeo:AUTO"]

\* strict_discrete_set: the value when it is one of the values, ValueError otherwise
strict_discrete_set(value, values) ==
    IF \E i \in DOMAIN values : values[i] = value
    THEN SigReturn(value)
    ELSE SigRaise("ValueError")

\* the wire form of a value of a mapped list of values: its index in the list
values_index(values, value) ==
    (CHOOSE i \in DOMAIN values :
         values[i] = value /\ \A j \in 1..(i - 1) : values[j] # value) - 1

\* the number a reply text is cast to; -1 stands for a text that is no number
int_of_reply(reply) ==
    IF \E n \in 0..9 : Digit[n + 1] = reply
    THEN CHOOSE n \in 0..9 : Digit[n + 1] = reply
    ELSE 0 - 1

\* setting a mapped control: validation, mapping, then the write of the command;
\* ret is the argument written, sent the command ("" when nothing is written)
control_set(command, values, value) ==
    LET checked == strict_discrete_set(value, values)
    IN  IF checked.exc # "none"
        THEN [exc |-> checked.exc, ret |-> "", sent |-> ""]
        ELSE LET arg == str(values_index(values, checked.ret))
             IN  [exc |-> "none", ret |-> arg, sent |-> command \o " " \o arg]

\* getting a mapped control: the reply cast to a number selects the value
control_get(command, values, reply) ==
    LET n == int_of_reply(reply)
    IN  IF n < 0
        THEN [exc |-> "ValueError", ret |-> "", sent |-> command \o "?"]
        ELSE IF n + 1 > Len(values)
             THEN [exc |-> "IndexError", ret |-> "", sent |-> command \o "?"]
             ELSE [exc |-> "none", ret |-> values[n + 1], sent |-> command \o "?"]

\* the values assigned to an on/off control and the replies to its query
OnOffInputs ==
    {SigIn("value", "", prop, <<>>, <<>>, value) :
        prop \in DOMAIN SVA1000X_on_off_command,
        value \in {"ON", "OFF", "1", "0", "AUTO"}}
    \cup {SigIn("reply", "", prop, <<>>, <<>>, reply) :
             prop \in DOMAIN SVA1000X_on_off_command,
             reply \in {"0", "1", "2", "3", "4", "ON"}}

Call_on_off_set ==
    /\ sigInput.kind = "value"
    /\ LET r == control_set(SVA1000X_on_off_command[sigInput.prop], ON_OFF_values,
                            sigInput.text)
       IN  sigLast' = SigDone("set", "SVA1000X", "", sigInput.prop, r.sent, r)
    /\ UNCHANGED <<sigInput, topticaVars, agiltronVars>>

Call_on_off_get ==
    /\ sigInput.kind = "reply"
    /\ LET r == control_get(SVA1000X_on_off_command[sigInput.prop], ON_OFF_values,
                            sigInput.text)
       IN  sigLast' = SigDone("get", "SVA1000X", "", sigInput.prop, r.sent, r)
    /\ UNCHANGED <<sigInput, topticaVars, agiltronVars>>

----------------------------------------------------------------------------
(* Siglent SDG1032X: the setters of the channel controls *)

\* the set commands of SDG1032XChannel up to their "%s", cut at the placeholder of
\* the channel id
SDG1032XChannel_set_command ==
    [output_enabled |-> <<":C", "{ch}", ":OUTP ">>,
     output_load |-> <<":C", "{ch}", ":OUTP LOAD,">>,
     noise_addition_enabled |-> <<":C", "{ch}", ":NOISE_ADD STATE,">>]

\* an exception object that is a value (returned, passed on), not a raised exception
ValueErrorObject(msg) == [type |-> "ValueError", i |-> 0, s |-> msg]

\* "%s" % value
format_s(value) == IF value.type = "int" THEN str(value.i) ELSE value.s

\* the validator of output_load, a lambda of one parameter x, called with the
\* positional arguments args: it returns x, or returns a ValueError object
output_load_validator(args) ==
    IF Len(args) # 1
    THEN SigRaise("TypeError")
    ELSE LET x == args[1]
         IN  IF x = PyStr("HZ") \/ (x.type = "int" /\ 50 <= x.i /\ x.i <= 10000)
             THEN SigReturn(x)
             ELSE SigReturn(ValueErrorObject("Load must be 'HZ' or 50-10000 ohms"))

\* setting output_load of channel id: the validator is called with args, and what
\* it returns is formatted into the set command, which is written
output_load_set(id, args) ==
    LET checked == output_load_validator(args)
    IN  IF checked.exc # "none"
        THEN [exc |-> checked.exc, ret |-> "", sent |-> ""]
        ELSE [exc |-> "none", ret |-> format_s(checked.ret),
              sent |-> insert_id(SDG1032XChannel_set_command.output_load, id)
                          \o format_s(checked.ret)]

\* a value mapping in which both keys map to "ON"
SDG1032X_bool_values_both_on ==
    <<[key |-> PyBool(TRUE), val |-> "ON"], [key |-> PyBool(FALSE), val |-> "ON"]>>

\* values={True: "ON", False: "OFF"} of output_enabled and noise_addition_enabled,
\* in the order of the dict
SDG1032X_bool_values ==
    <<[key |-> PyBool(TRUE), val |-> "ON"], [key |-> PyBool(FALSE), val |-> "OFF"]>>

\* setting a control mapped by a dict: validation against the keys, the value of
\* the key, then the write of the command
dict_set(command, values, value) ==
    LET checked == strict_discrete_set(value, [i \in DOMAIN values |-> values[i].key])
    IN  IF checked.exc # "none"
        THEN [exc |-> checked.exc, ret |-> "", sent |-> ""]
        ELSE LET arg == (CHOOSE e \in ToSet(values) : e.key = checked.ret).val
             IN  [exc |-> "none", ret |-> arg, sent |-> command \o arg]

\* getting a control mapped by a dict from a reply of one token: the first key
\* whose value is the reply, KeyError when there is none
dict_get(values, reply) ==
    IF \E i \in DOMAIN values : values[i].val = reply
    THEN SigReturn(values[CHOOSE i \in DOMAIN values :
                              /\ values[i].val = reply
                              /\ \A j \in 1..(i - 1) : values[j].val # reply].key)
    ELSE SigRaise("KeyError")

\* the values assigned to output_load and to the two controls mapped by the dict
SetInputs ==
    {SigVal("load", ch, "output_load", value) :
        ch \in DOMAIN SDG1032X_channels,
        value \in {PyStr("HZ"), PyStr("LZ"), PyInt(49), PyInt(50), PyInt(75),
                   PyInt(10000), PyInt(10001), PyBool(TRUE), PyNone}}
    \cup {SigVal("bool", ch, prop, value) :
             ch \in DOMAIN SDG1032X_channels,
             prop \in {"output_enabled", "noise_addition_enabled"},
             value \in {PyBool(TRUE), PyBool(FALSE), PyStr("ON"), PyNone}}

\* channel.output_load = value; the property calls the validator with the value
\* and the values of the control, the contract of a codec calls it with the value
Call_output_load_set ==
    /\ sigInput.kind = "load"
    /\ \E args \in {<<sigInput.value, <<>>>>, <<sigInput.value>>} :
          LET r == output_load_set(SDG1032X_channels[sigInput.ch], args)
          IN  sigLast' = SigDone("set", "SDG1032X", sigInput.ch, "output_load", r.sent, r)
    /\ UNCHANGED <<sigInput, topticaVars, agiltronVars>>

\* channel.output_enabled = value, channel.noise_addition_enabled = value
Call_bool_set ==
    /\ sigInput.kind = "bool"
    /\ LET r == dict_set(insert_id(SDG1032XChannel_set_command[sigInput.prop],
                                   SDG1032X_channels[sigInput.ch]),
                         SDG1032X_bool_values, sigInput.value)
       IN  sigLast' = SigDone("set", "SDG1032X", sigInput.ch, sigInput.prop, r.sent, r)
    /\ UNCHANGED <<sigInput, topticaVars, agiltronVars>>

\* a descriptor is applied to one of the inputs
InitSiglent ==
    /\ TopticaInit
    /\ AgiltronInit
    /\ sigInput \in ParserInputs \cup WaveformInputs \cup TraceInputs \cup OnOffInputs
                    \cup SetInputs
    /\ sigLast = SigNone

NextSiglent ==
    \/ Call_output_enabled_get
    \/ Call_output_polarity_get
    \/ Call_output_load_get
    \/ Call_noise_addition_enabled_get
    \/ Call_get_waveform_settings
    \/ Call_trace_get
    \/ Call_on_off_set
    \/ Call_on_off_get
    \/ Call_output_load_set
    \/ Call_bool_set

SpecSiglent == InitSiglent /\ [][NextSiglent]_vars

----------------------------------------------------------------------------
(* Vocabulary of the Siglent properties *)

\* the pairs of a keyed block KEY1,val1,KEY2,val2,...: the places of a key
PairsOf(tokens) == 1..(Len(tokens) \div 2)
PairsWithKey(tokens, key) == {k \in PairsOf(tokens) : tokens[2 * k - 1] = key}
FirstPair(tokens, key) ==
    CHOOSE k \in PairsWithKey(tokens, key) : \A j \in PairsWithKey(tokens, key) : k <= j
LastPair(tokens, key) ==
    CHOOSE k \in PairsWithKey(tokens, key) : \A j \in PairsWithKey(tokens, key) : k >= j

\* d is the ordered mapping of a keyed block: one item for each key, in the order
\* the keys first appear, holding the value that follows the key (the last one
\* when the key is repeated)
IsPairing(d, tokens) ==
    /\ \A i \in DOMAIN d : \A j \in DOMAIN d : i # j => d[i].key # d[j].key
    /\ {d[i].key : i \in DOMAIN d} = {tokens[2 * k - 1] : k \in PairsOf(tokens)}
    /\ \A i \in DOMAIN d : d[i].value = tokens[2 * LastPair(tokens, d[i].key)]
    /\ \A i \in DOMAIN d : \A j \in DOMAIN d :
           i < j => FirstPair(tokens, d[i].key) < FirstPair(tokens, d[j].key)

\* the reply is a command echo followed by a keyed block
KeyedBlockAfter(echoes) ==
    /\ sigLast.op = "get_waveform_settings"
    /\ sigInput.echo \in echoes
    /\ Len(sigInput.tokens) >= 2
    /\ Len(sigInput.tokens) % 2 = 0

----------------------------------------------------------------------------
(* C13 *)

\* C13 as stated: get_waveform_settings discards the command echo of the reply
\* and pairs the tokens that follow; "ECHO,KEY1,10,KEY2,20", whose echo has five
\* characters, gives {"KEY1": "10", "KEY2": "20"}.
C13_Original ==
    /\ KeyedBlockAfter({STR_ECHO_BSWV})
           => /\ sigLast.exc = "none"
              /\ IsPairing(sigLast.ret, sigInput.tokens)
    /\ (/\ sigLast.op = "get_waveform_settings"
        /\ sigInput.echo = STR_ECHO_5
        /\ sigInput.tokens = <<STR_KEY1, STR_10, STR_KEY2, STR_20>>)
           => /\ sigLast.exc = "none"
              /\ sigLast.ret = <<[key |-> STR_KEY1, value |-> STR_10],
                                 [key |-> STR_KEY2, value |-> STR_20]>>

\* C13 amended: get_waveform_settings discards the first eight characters of the
\* reply (the echo "C1:BSWV ") and, when a keyed block follows, pairs its tokens
\* adjacently into an ordered mapping; "C1:BSWV KEY1,10,KEY2,20" gives
\* {"KEY1": "10", "KEY2": "20"}.
C13_KeyedBlockAfterEchoOf8 ==
    KeyedBlockAfter({STR_ECHO_BSWV})
    => /\ sigLast.exc = "none"
       /\ IsPairing(sigLast.ret, sigInput.tokens)

\* "C1:BSWV KEY1,10,KEY2,20" was parsed to {"KEY1": "10", "KEY2": "20"}
C13_Witness ==
    /\ sigLast.op = "get_waveform_settings"
    /\ sigInput.echo = STR_ECHO_BSWV
    /\ sigInput.tokens = <<STR_KEY1, STR_10, STR_KEY2, STR_20>>
    /\ sigLast.exc = "none"
    /\ sigLast.ret = <<[key |-> STR_KEY1, value |-> STR_10],
                       [key |-> STR_KEY2, value |-> STR_20]>>

----------------------------------------------------------------------------
(* C14 *)

\* C14: whatever tokens the reply was split into, a single empty token included,
\* the parsers of the SDG1032X channel properties return and never fail on an
\* index: output_polarity gives "NOR" on fewer than 7 tokens, output_load gives
\* "HZ" on fewer than 3, noise_addition_enabled gives False on fewer than 2,
\* output_enabled gives False on none.
C14_ShortReplyDefault ==
    (sigLast.op = "get" /\ sigInput.kind = "tokens")
    => /\ sigLast.exc = "none"
       /\ (sigLast.prop = "output_polarity" /\ Len(sigInput.tokens) < 7)
              => sigLast.ret = STR_NOR
       /\ (sigLast.prop = "output_load" /\ Len(sigInput.tokens) < 3)
              => sigLast.ret = STR_HZ
       /\ (sigLast.prop = "noise_addition_enabled" /\ Len(sigInput.tokens) < 2)
              => sigLast.ret = FALSE
       /\ (sigLast.prop = "output_enabled" /\ Len(sigInput.tokens) = 0)
              => sigLast.ret = FALSE

----------------------------------------------------------------------------
(* C15 *)

\* C15: get_waveform_settings returns a mapping for every reply, also for one
\* shorter than the echo, empty after the echo, or with an odd number of tokens
\* after the echo; it never fails on an index.
C15_NoIndexError ==
    sigLast.op = "get_waveform_settings" => sigLast.exc = "none"

----------------------------------------------------------------------------
(* C16 *)

\* the channels of the instrument of the last request, the text of the id of one
\* of them, and the get command of the descriptor of the last request
ChannelsOf(inst) ==
    IF inst = "SDG1032X" THEN DOMAIN SDG1032X_channels ELSE DOMAIN SVA1000X_channels
IdText(inst, ch) ==
    IF inst = "SDG1032X" THEN SDG1032X_channels[ch] ELSE str(SVA1000X_channels[ch])
GetCommandOf(inst, prop) ==
    IF inst = "SDG1032X"
    THEN SDG1032XChannel_get_command[prop]
    ELSE TraceChannel_get_command[prop]

\* C16: a get on a channel of SDG1032X or SVA1000X sends a request formatted with
\* the id of that channel, different from the request the same descriptor sends
\* on any other channel of the instrument; the ids of the channels of an
\* instrument differ.
C16_ChannelIdSubstitution ==
    (sigLast.op \in {"get", "get_waveform_settings"} /\ sigLast.ch # "")
    => /\ \E k \in DOMAIN GetCommandOf(sigLast.inst, sigLast.prop) :
              GetCommandOf(sigLast.inst, sigLast.prop)[k] = "{ch}"
       /\ \A other \in ChannelsOf(sigLast.inst) \ {sigLast.ch} :
              /\ IdText(sigLast.inst, other) # IdText(sigLast.inst, sigLast.ch)
              /\ insert_id(GetCommandOf(sigLast.inst, sigLast.prop),
                           IdText(sigLast.inst, other)) # sigLast.sent

----------------------------------------------------------------------------
(* C20 *)

\* how the device reads the argument of an on/off command
ReadAsOn == {"ON", "1"}
ReadAsOff == {"OFF", "0"}

\* C20: each SVA1000X on/off control writes, for "ON" or "1", an argument the
\* device reads as on and, for "OFF" or "0", one it reads as off; the reply 1 is
\* decoded to an on value and the reply 0 to an off value.
C20_OnOffMeaning ==
    /\ (sigLast.op = "set" /\ sigInput.kind = "value" /\ sigInput.text \in ReadAsOn)
           => (sigLast.exc = "none" /\ sigLast.ret \in ReadAsOn)
    /\ (sigLast.op = "set" /\ sigInput.kind = "value" /\ sigInput.text \in ReadAsOff)
           => (sigLast.exc = "none" /\ sigLast.ret \in ReadAsOff)
    /\ (sigLast.op = "get" /\ sigInput.kind = "reply" /\ sigInput.text = "1")
           => (sigLast.exc = "none" /\ sigLast.ret \in ReadAsOn)
    /\ (sigLast.op = "get" /\ sigInput.kind = "reply" /\ sigInput.text = "0")
           => (sigLast.exc = "none" /\ sigLast.ret \in ReadAsOff)

----------------------------------------------------------------------------
(* C21 *)

\* the parameter each range-checked setter writes
SetNames ==
    "wavelength.set" :> "laser1:ctl:wavelength-set" @@
    "scan_offset.set" :> "laser1:scan:offset" @@
    "ta_temperature_setpoint.set" :> "laser1:amp:tc:temp-set" @@
    "ctl_current.set" :> "laser1:dl:cc:current-set" @@
    "ta_current.set" :> "ampcc1:channel1:current-set"

\* the last call was a range-checked setter on a device that reported its limits,
\* and the requested value lies within them, the limits themselves included
WithinReportedLimits ==
    \/ /\ last.op \in RangeSetOps
       /\ Len(last.calls) >= 2
       /\ last.calls[1].out = "ok"
       /\ last.calls[2].out = "ok"
       /\ last.calls[1].ret <= last.arg.i
       /\ last.arg.i <= last.calls[2].ret
    \/ /\ last.op \in ClipSetOps
       /\ Len(last.calls) >= 1
       /\ last.calls[1].out = "ok"
       /\ 0 <= last.arg.i
       /\ last.arg.i <= last.calls[1].ret

\* the SDK sets among the calls
SetsOf(calls) == {i \in DOMAIN calls : calls[i].m = "set"}

\* C21: a range-checked setter given a value within the limits the device reported,
\* a value equal to the lower or to the upper limit included, raises no validation
\* error and issues exactly one SDK set, of its parameter, carrying that value; it
\* raises its validation error only for a value strictly below the lower or strictly
\* above the upper limit.
C21_InclusiveBounds ==
    /\ WithinReportedLimits
          => /\ ~ValidationErrorRaised
             /\ SetsOf(last.calls) = {Len(last.calls)}
             /\ last.calls[Len(last.calls)].name = SetNames[last.op]
             /\ last.calls[Len(last.calls)].arg = last.arg
    /\ RangeCheckRejected => OutOfReportedLimits

\* a CTL current equal to the reported current limit was accepted and written
C21_Witness ==
    /\ last.op = "ctl_current.set"
    /\ WithinReportedLimits
    /\ last.arg.i = last.calls[1].ret
    /\ last.arg.i > 0
    /\ last.exc = "none"
    /\ Len(last.calls) = 2

----------------------------------------------------------------------------
(* C22 *)

\* a value of the domain of output_load: "HZ", or a number from 50 to 10000
LoadInDomain(x) == x = PyStr("HZ") \/ (x.type = "int" /\ 50 <= x.i /\ x.i <= 10000)

LoadSetDone == sigLast.op = "set" /\ sigLast.prop = "output_load"

\* C22: setting output_load to a value that is neither "HZ" nor a number from 50 to
\* 10000 raises ValueError and writes no command; setting it to "HZ" or to a number
\* from 50 to 10000 raises nothing and writes the LOAD command carrying the value.
C22_PredicateCodec ==
    LoadSetDone =>
        IF LoadInDomain(sigInput.value)
        THEN /\ sigLast.exc = "none"
             /\ sigLast.sent = ":C" \o SDG1032X_channels[sigInput.ch] \o ":OUTP LOAD,"
                                   \o format_s(sigInput.value)
        ELSE /\ sigLast.exc = "ValueError"
             /\ sigLast.sent = ""

----------------------------------------------------------------------------
(* C23 *)

\* a key of a value mapping was assigned to its control and written
MappedSetDone ==
    /\ sigLast.op = "set"
    /\ sigLast.exc = "none"
    /\ sigLast.prop \in {"output_enabled", "noise_addition_enabled"}
                         \cup DOMAIN SVA1000X_on_off_command

\* C23: when a key of a value mapping was assigned to its control, decoding the
\* token that was written returns the key: for {True: "ON", False: "OFF"} of
\* output_enabled and noise_addition_enabled, and for the mapped on/off lists of
\* the SVA1000X.
C23_MappingRoundTrip ==
    MappedSetDone =>
        IF sigLast.inst = "SDG1032X"
        THEN dict_get(SDG1032X_bool_values, sigLast.ret)
                = SigReturn(sigInput.value)
        ELSE /\ control_get(SVA1000X_on_off_command[sigLast.prop], ON_OFF_values,
                            sigLast.ret).exc = "none"
             /\ control_get(SVA1000X_on_off_command[sigLast.prop], ON_OFF_values,
                            sigLast.ret).ret = sigInput.text

\* False was assigned to noise_addition_enabled and "OFF" was written
C23_Witness ==
    /\ MappedSetDone
    /\ sigLast.prop = "noise_addition_enabled"
    /\ sigInput.value = PyBool(FALSE)
    /\ sigLast.ret = "OFF"

----------------------------------------------------------------------------
(* C24 *)

ShutdownOps == {"shutdown", "__exit__"}

\* shutdown() has run on the constructed object
AfterShutdown == phase = "ready" /\ closeCount > 0

\* the last operation came after a shutdown
OpAfterShutdown == AfterShutdown /\ last.op \notin ShutdownOps

\* the operations that are no property of one variant
GenericOps ==
    {"get_parameter", "set_parameter", "get_all_parameters",
     "get_all_supported_parameters"}

\* the last operation was a property get or set on the matching variant, or one of
\* the generic operations
DeviceOp ==
    \/ last.op \in {"emission.get", "emission.set"} \cup GenericOps
    \/ last.op \in CTLOnlyOps /\ laser_type = "CTL"
    \/ last.op \in TAOnlyOps /\ laser_type = "TA"

ConnectionNotOpen ==
    /\ last.exc = "ConnectionError"
    /\ last.msg = "Connection not open"
    /\ last.calls = <<>>

\* C24 as stated: after shutdown() the client is None and stays None, every property
\* get or set on the matching variant and every generic operation made later raises
\* ConnectionError "Connection not open" without an SDK call, and no operation made
\* later issues an SDK call.
C24_Original ==
    /\ AfterShutdown => client = "None"
    /\ (OpAfterShutdown /\ DeviceOp) => ConnectionNotOpen
    /\ OpAfterShutdown => last.calls = <<>>

\* C24 as amended: after shutdown() the client is None and stays None; every property
\* get, every property set whose value passed the type check of its setter (emission:
\* a bool), on the matching variant, and every generic operation made later raises
\* ConnectionError "Connection not open" without an SDK call; a set refused by the
\* type check of its setter raises its validation error; and no operation made later
\* issues an SDK call.
C24_ClosedClientRefuses ==
    /\ AfterShutdown => client = "None"
    /\ (OpAfterShutdown /\ DeviceOp /\ ~(last.op = "emission.set" /\ ~IsBool(last.arg)))
          => ConnectionNotOpen
    /\ (OpAfterShutdown /\ last.op = "emission.set" /\ ~IsBool(last.arg))
          => (last.exc = "ValueError" /\ last.msg = "Emission must be True or False")
    /\ OpAfterShutdown => last.calls = <<>>

\* a CTL current within any limits was assigned after shutdown() and was refused
\* for the closed connection
C24_Witness ==
    /\ OpAfterShutdown
    /\ last.op = "ctl_current.set"
    /\ laser_type = "CTL"
    /\ last.arg.i = 0
    /\ ConnectionNotOpen

----------------------------------------------------------------------------
(* C25 *)

\* C25: over every sequence of shutdown() and context-manager exits on a constructed
\* object, close() of the SDK client is called at most once; every one of these
\* calls returns without raising, also when close() raised, and leaves the client
\* None; and a call made when the client is already None calls nothing.
C25_ShutdownIdempotent ==
    /\ closeCount <= 1
    /\ last.op \in ShutdownOps
          => /\ client = "None"
             /\ last.exc = "none"
             /\ closeCount = 1
             /\ last.calls = <<>> \/ (Len(last.calls) = 1 /\ last.calls[1].m = "close")

\* a context-manager exit after a shutdown() called nothing
C25_WitnessRepeated ==
    /\ last.op = "__exit__"
    /\ last.calls = <<>>
    /\ closeCount = 1
    /\ client = "None"

----------------------------------------------------------------------------
(* C26 *)

\* the step was a channel assignment whose transport write completed
ChannelAssigned == swLast'.op \in ChannelSetOps /\ swLast'.exc = "none"

\* C26: on a constructed switch the channel getter returns 1 until a channel
\* assignment completes its transport write, and from then on the value of the most
\* recent such assignment: a step that is no such assignment (a rejected value, a
\* write that raises, any other call) leaves what the getter returns unchanged. What
\* it returns is always a member of get_available_channels(), and a
\* switch_to_channel(c) with a valid c that returns, returns c.
C26_TrackedChannel ==
    /\ []((swPhase = "ready" /\ swLast.op = "__init__") => channel_get = PyInt(1))
    /\ [][swPhase' = "ready"
              => channel_get' = IF ChannelAssigned THEN swLast'.arg ELSE channel_get]_vars
    /\ [](swPhase = "ready" => channel_get.i \in ToSet(get_available_channels))
    /\ []((swLast.op = "switch_to_channel" /\ swLast.exc = "none"
              /\ swLast.arg.i \in ValidChannels(switch_type))
            => swLast.ret = swLast.arg)
    /\ []((swLast.op = "switch_to_channel" /\ swLast.arg.i \in ValidChannels(switch_type))
            => swLast.exc \in {"none", "TransportError"})

\* after channel 5 was selected, a write that raised left the getter at 5
C26_Witness ==
    /\ swLast.op = "channel.set"
    /\ swLast.exc = "TransportError"
    /\ swLast.arg = PyInt(3)
    /\ channel_get = PyInt(5)

----------------------------------------------------------------------------
(* C27 *)

\* the switch has just been constructed
Constructed == swPhase = "ready" /\ swLast.op = "__init__"

IdQueryFailed == \E i \in DOMAIN swLast.io : swLast.io[i].out # "ok"

\* C27: the construction of a 1x8 switch asks "*PN" and then "*SN", that of a 1x2
\* switch asks nothing; when one of the two queries fails the construction still
\* succeeds and id reports product and serial as "Unknown", when both are answered id
\* reports the two replies; in no state does the id of a 1x8 switch pair a product
\* name with the serial "Unknown"; and the id of a 1x2 switch is the product
\* "Agiltron 1x2 Switch" with the serial "Unknown".
C27_IdentificationTolerant ==
    /\ (Constructed /\ switch_type = "1x8")
          => /\ swLast.exc = "none"
             /\ [i \in DOMAIN swLast.io |-> swLast.io[i].text] \in
                    {<<"*PN">>, <<"*PN", "*SN">>}
             /\ \A i \in DOMAIN swLast.io : swLast.io[i].m = "ask"
             /\ Len(swLast.io) = 1 => IdQueryFailed
             /\ IdQueryFailed => id_get = [product |-> "Unknown", serial |-> "Unknown"]
             /\ ~IdQueryFailed => id_get = [product |-> swLast.io[1].reply,
                                            serial |-> swLast.io[2].reply]
    /\ (swPhase = "ready" /\ switch_type = "1x8" /\ id_get.serial = "Unknown")
          => id_get.product = "Unknown"
    /\ (Constructed /\ switch_type = "1x2") => swLast.io = <<>>
    /\ (swPhase = "ready" /\ switch_type = "1x2")
          => id_get = [product |-> "Agiltron 1x2 Switch", serial |-> "Unknown"]

\* "*PN" was answered and "*SN" failed: the product name obtained was discarded
C27_Witness ==
    /\ Constructed
    /\ switch_type = "1x8"
    /\ Len(swLast.io) = 2
    /\ swLast.io[1].out = "ok"
    /\ swLast.io[2].out = "fault"
    /\ id_get = [product |-> "Unknown", serial |-> "Unknown"]

----------------------------------------------------------------------------
(* C28 *)

IsPrefix(p, q) == Len(p) <= Len(q) /\ p = SubSeq(q, 1, Len(p))

\* the requests of a range-checked setter, in the order of the code: its limit
\* queries, then the set
RequestOrder(op) ==
    [i \in 1..(Len(LimitNames[op]) + 1) |->
        IF i <= Len(LimitNames[op])
        THEN [m |-> "get", name |-> LimitNames[op][i]]
        ELSE [m |-> "set", name |-> SetNames[op]]]

\* C28: the SDK calls of one call of a range-checked setter are an initial part of
\* the sequence lower-limit query, upper-limit query (the current limit alone for
\* ctl_current and ta_current), set; every call but the last has returned before the
\* next was issued; the set is issued only when all limit queries have returned and
\* the value lies within the limits they returned; and there is at most one set.
C28_RequestOrder ==
    last.op \in (RangeSetOps \cup ClipSetOps) =>
        /\ IsPrefix([i \in DOMAIN last.calls |->
                        [m |-> last.calls[i].m, name |-> last.calls[i].name]],
                    RequestOrder(last.op))
        /\ \A i \in 1..(Len(last.calls) - 1) : last.calls[i].out = "ok"
        /\ SetsOf(last.calls) # {}
              => (WithinReportedLimits /\ SetsOf(last.calls) = {Len(last.calls)})
        /\ Cardinality(SetsOf(last.calls)) <= 1

\* a scan offset was set after its lower and its upper limit were read, in this order
C28_Witness ==
    /\ last.op = "scan_offset.set"
    /\ last.exc = "none"
    /\ Names(last.calls) = <<"laser1:dl:pc:voltage-min", "laser1:dl:pc:voltage-max",
                             "laser1:scan:offset">>
    /\ Methods(last.calls) = <<"get", "get", "set">>

----------------------------------------------------------------------------
(* C29 *)

\* a single get or set: the properties and the two generic accessors
SingleOps ==
    CTLOnlyOps \cup TAOnlyOps
        \cup {"emission.get", "emission.set", "get_parameter", "set_parameter"}

\* what the caller sees of a request that failed
Surfaced(call) ==
    IF call.out = "decop"
    THEN /\ last.exc = "ValueError"
         /\ last.msg = IF call.m = "get" THEN "Error retrieving parameter"
                                         ELSE "Error setting parameter"
    ELSE last.exc = "TransportError"

\* C29: a single get or set issues no SDK request twice, and the direct accessors
\* get_parameter and set_parameter issue exactly one request on an open connection;
\* a request that fails is the last request of the call, and its failure is what the
\* call raises: ValueError for the parameter for a device error, the error itself
\* for any other error.
C29_NoRetry ==
    last.op \in SingleOps =>
        /\ \A i, j \in DOMAIN last.calls :
              (last.calls[i].m = last.calls[j].m
                  /\ last.calls[i].name = last.calls[j].name) => i = j
        /\ (last.op \in {"get_parameter", "set_parameter", "emission.get"}
                /\ client # "None")
              => Len(last.calls) = 1
        /\ \A i \in DOMAIN last.calls :
              last.calls[i].out # "ok"
                  => (i = Len(last.calls) /\ Surfaced(last.calls[i]))

\* a set refused by the device was raised as ValueError after one attempt
C29_Witness ==
    /\ last.op = "set_parameter"
    /\ Len(last.calls) = 1
    /\ last.calls[1].out = "decop"
    /\ last.exc = "ValueError"
    /\ last.msg = "Error setting parameter"

----------------------------------------------------------------------------
(* C30 *)

\* C30: when the construction has failed no SDK client session is open: a client
\* that was opened before the type query failed has been closed, close() being the
\* last SDK call of the construction.
C30_NoSessionLeftOpen ==
    phase = "failed" =>
        /\ ~sdkOpen
        /\ (last.calls # <<>> /\ last.calls[1].out = "ok")
              => last.calls[Len(last.calls)].m = "close"

====
